---- MODULE Spec2Model ----
(***************************************************************************)
(* State-machine model of the OAuth-to-API-key bridge (lib/oauth.ts), the  *)
(* JSON-file key store (lib/auth.ts) and the /mcp session gateway          *)
(* (server.ts) of mcp-social-media-analytics.                              *)
(*                                                                         *)
(* Every handler is cut at its await points that separate two accesses to  *)
(* shared state (the key file, authCodes, transports, the clock); awaits   *)
(* that touch nothing shared (reading the request body, connecting a new   *)
(* channel) are folded into the step that follows them.                    *)
(***************************************************************************)
EXTENDS Integers, Sequences, FiniteSets, TLC

VARIABLES
    now,          \* Date.now(), ms since the process started
    month,        \* index of the calendar month of new Date()
    nextSweep,    \* due time of the setInterval sweep
    keyFile,      \* content of data/api-keys.json: key -> ApiKeyData
    authCodes,    \* oauth.ts authCodes: code -> AuthCode
    nextCode,     \* number of codes drawn from randomBytes so far
    sub,          \* in-flight POST /authorize/submit requests
    tok,          \* in-flight POST /token requests
    mcp,          \* in-flight requests to the /mcp endpoint
    transports,   \* server.ts transports: session id -> {transport, apiKey}
    nextSid,      \* number of session ids drawn from randomUUID so far
    adm,          \* an in-flight deactivateKey call
    registeredClients, \* oauth.ts registeredClients: client id -> RegisteredClient
    nextClient,   \* number of client ids drawn from randomBytes so far
    web,          \* the last /register or GET /authorize request and its answer
    env,          \* what the clients of this run send and keep (fixed by Init)
    issued,       \* history: the AuthCode stored under each code at issuance
    lookups,      \* history: how often /token found (and deleted) each code
    grants,       \* history: how many success responses each code produced
    signup,       \* in-flight /api/keys/signup and /api/keys/provision requests
    nextKey,      \* number of API keys drawn from randomBytes so far
    shutdown      \* the SIGINT handler: its position and the sessions it iterates

sysVars == <<signup, nextKey, shutdown>>

mcpVars == <<mcp, transports, nextSid, adm, sysVars>>

regVars == <<registeredClients, nextClient, web>>

oauthVars == <<now, nextSweep, authCodes, nextCode, sub, tok, issued, lookups,
               grants, regVars>>

vars == <<month, keyFile, env, oauthVars, mcpVars>>

---------------------------------------------------------------------------
(* Bounds of the model *)

MaxTicks == 3
MaxCodes == 1
MaxSessions == 1
MaxClients == 1
Headroom == 2

\* API keys created in a run
MaxKeys == 3

\* calendar months that begin during a run
MaxMonth == 1

(* Program constants *)

CodeTtlMs == 600000
SweepIntervalMs == 300000
ExpiresIn == 86400
LimitFree == 10
LimitStarter == 200
LimitPro == 1000
LimitBusiness == 5000

\* The clock is observed once per sweep period.
TickMs == SweepIntervalMs

---------------------------------------------------------------------------
(* lib/auth.ts: the key store *)

TIER_LIMITS ==
    [free |-> LimitFree, starter |-> LimitStarter,
     pro |-> LimitPro, business |-> LimitBusiness]

Tiers == {"free", "starter", "pro", "business"}

NoKeyData == [absent |-> TRUE]

\* store.keys[key]
KeyDataOf(store, key) ==
    IF key \in DOMAIN store THEN store[key] ELSE NoKeyData

\* keyData.usage[month] || 0
UsageOf(keyData, m) ==
    IF m \in DOMAIN keyData.usage THEN keyData.usage[m] ELSE 0

\* TIER_LIMITS[keyData.tier] || 10
LimitOf(keyData) ==
    IF keyData.tier \in DOMAIN TIER_LIMITS THEN TIER_LIMITS[keyData.tier] ELSE 10

\* mutant: the monthly limit is not checked
ValidateApiKey_NoLimit(key, keyData, m) ==
    IF key = "" THEN
        [valid |-> FALSE, error |-> "Missing API key. Pass X-API-Key header.", tier |-> ""]
    ELSE IF keyData = NoKeyData THEN
        [valid |-> FALSE, error |-> "Invalid API key.", tier |-> ""]
    ELSE IF ~keyData.active THEN
        [valid |-> FALSE, error |-> "API key is deactivated.", tier |-> ""]
    ELSE
        [valid |-> TRUE, error |-> "", tier |-> keyData.tier]

\* mutant: the limit is compared with the counter of every month
ValidateApiKey_AnyMonth(key, keyData, m) ==
    IF key = "" THEN
        [valid |-> FALSE, error |-> "Missing API key. Pass X-API-Key header.", tier |-> ""]
    ELSE IF keyData = NoKeyData THEN
        [valid |-> FALSE, error |-> "Invalid API key.", tier |-> ""]
    ELSE IF ~keyData.active THEN
        [valid |-> FALSE, error |-> "API key is deactivated.", tier |-> ""]
    ELSE IF \E o \in DOMAIN keyData.usage : keyData.usage[o] >= LimitOf(keyData) THEN
        [valid |-> FALSE, error |-> "Rate limit exceeded.", tier |-> ""]
    ELSE
        [valid |-> TRUE, error |-> "", tier |-> keyData.tier]

\* validateApiKey, after loadKeys has delivered keyData = store.keys[key]
ValidateApiKey(key, keyData, m) ==
    IF key = "" THEN
        [valid |-> FALSE, error |-> "Missing API key. Pass X-API-Key header.", tier |-> ""]
    ELSE IF keyData = NoKeyData THEN
        [valid |-> FALSE, error |-> "Invalid API key.", tier |-> ""]
    ELSE IF ~keyData.active THEN
        [valid |-> FALSE, error |-> "API key is deactivated.", tier |-> ""]
    ELSE IF UsageOf(keyData, m) >= LimitOf(keyData) THEN
        [valid |-> FALSE, error |-> "Rate limit exceeded.", tier |-> ""]
    ELSE
        [valid |-> TRUE, error |-> "", tier |-> keyData.tier]

---------------------------------------------------------------------------
(* lib/oauth.ts: PKCE *)

\* createHash("sha256").update(v).digest("base64url")
Sha256Base64Url(v) == "h(" \o v \o ")"

\* mutant: the method is ignored and the verifier compared verbatim
ComputedChallenge_Plain(method, verifier) == verifier

\* computedChallenge of handleToken
ComputedChallenge(method, verifier) ==
    IF method = "S256" THEN Sha256Base64Url(verifier) ELSE verifier

\* new URL(s) succeeds
IsUrl(s) == s \in {"https://a/cb", "https://b/cb", "https://B/cb"}

\* body of a token-endpoint error
OAuthError(e, d) == [status |-> 400, error |-> e, error_description |-> d]

\* mutant: the expiry check is missing
Expired_Never(t, authCode) == FALSE

\* mutant: the code counts as expired from expiresAt on
Expired_AtExpiry(t, authCode) == t >= authCode.expiresAt

\* Date.now() > authCode.expiresAt
Expired(t, authCode) == t > authCode.expiresAt

\* mutant: the code is left in the store after the lookup
DeleteCode_Keep(codes, code) == codes

\* authCodes.delete(code)
DeleteCode(codes, code) ==
    [c \in (DOMAIN codes) \ {code} |-> codes[c]]

\* mutant: an omitted redirect_uri counts as a mismatch
RedirectMismatch_Required(redirectUri, authCode) ==
    redirectUri # authCode.redirectUri

\* the redirect_uri check of handleToken
RedirectMismatch(redirectUri, authCode) ==
    redirectUri # "" /\ redirectUri # authCode.redirectUri

\* mutant: a code stored without a challenge passes the check
PkceMatches_SkipEmpty(authCode, verifier) ==
    \/ authCode.codeChallenge \in {"", "(absent)"}
    \/ ComputedChallenge(authCode.codeChallengeMethod, verifier)
           = authCode.codeChallenge

\* the PKCE check of handleToken
PkceMatches(authCode, verifier) ==
    ComputedChallenge(authCode.codeChallengeMethod, verifier) = authCode.codeChallenge

\* the success body of handleToken
TokenSuccess(authCode) ==
    [status |-> 200, access_token |-> authCode.apiKey, token_type |-> "Bearer",
     expires_in |-> ExpiresIn, scope |-> authCode.scope]

\* mutant: the mismatch answer quotes the value computed from the verifier
TokenResponse_Leaky(p, codes, t) ==
    IF p.grant_type # "authorization_code" THEN
        [status |-> 400, error |-> "unsupported_grant_type", error_description |-> ""]
    ELSE IF p.code = 0 \/ p.code_verifier = "" THEN
        OAuthError("invalid_request", "code and code_verifier are required")
    ELSE IF p.code \notin DOMAIN codes THEN
        OAuthError("invalid_grant", "Authorization code not found or expired")
    ELSE IF Expired(t, codes[p.code]) THEN
        OAuthError("invalid_grant", "Authorization code expired")
    ELSE IF RedirectMismatch(p.redirect_uri, codes[p.code]) THEN
        OAuthError("invalid_grant", "redirect_uri mismatch")
    ELSE IF ~PkceMatches(codes[p.code], p.code_verifier) THEN
        OAuthError("invalid_grant",
                   "code_verifier does not match the challenge: "
                       \o ComputedChallenge(codes[p.code].codeChallengeMethod,
                                            p.code_verifier))
    ELSE TokenSuccess(codes[p.code])

\* mutant: the PKCE check comes before the redirect_uri check
TokenResponse_PkceFirst(p, codes, t) ==
    IF p.grant_type # "authorization_code" THEN
        [status |-> 400, error |-> "unsupported_grant_type", error_description |-> ""]
    ELSE IF p.code = 0 \/ p.code_verifier = "" THEN
        OAuthError("invalid_request", "code and code_verifier are required")
    ELSE IF p.code \notin DOMAIN codes THEN
        OAuthError("invalid_grant", "Authorization code not found or expired")
    ELSE IF Expired(t, codes[p.code]) THEN
        OAuthError("invalid_grant", "Authorization code expired")
    ELSE IF ~PkceMatches(codes[p.code], p.code_verifier) THEN
        OAuthError("invalid_grant", "code_verifier does not match the challenge")
    ELSE IF RedirectMismatch(p.redirect_uri, codes[p.code]) THEN
        OAuthError("invalid_grant", "redirect_uri mismatch")
    ELSE TokenSuccess(codes[p.code])

\* handleToken after the body has been read: the response
TokenResponse(p, codes, t) ==
    IF p.grant_type # "authorization_code" THEN
        [status |-> 400, error |-> "unsupported_grant_type", error_description |-> ""]
    ELSE IF p.code = 0 \/ p.code_verifier = "" THEN
        OAuthError("invalid_request", "code and code_verifier are required")
    ELSE IF p.code \notin DOMAIN codes THEN
        OAuthError("invalid_grant", "Authorization code not found or expired")
    ELSE IF Expired(t, codes[p.code]) THEN
        OAuthError("invalid_grant", "Authorization code expired")
    ELSE IF RedirectMismatch(p.redirect_uri, codes[p.code]) THEN
        OAuthError("invalid_grant", "redirect_uri mismatch")
    ELSE IF ~PkceMatches(codes[p.code], p.code_verifier) THEN
        OAuthError("invalid_grant", "code_verifier does not match the challenge")
    ELSE TokenSuccess(codes[p.code])

\* mutant: the lookup comes first, before the request is checked
FindsCode_AnyRequest(p, codes) == p.code \in DOMAIN codes

\* handleToken reaches the lookup and finds the code
FindsCode(p, codes) ==
    /\ p.grant_type = "authorization_code"
    /\ p.code # 0 /\ p.code_verifier # ""
    /\ p.code \in DOMAIN codes

---------------------------------------------------------------------------
(* Requests *)

SubSlots == {1}
TokSlots == {1, 2}
McpSlots == {1, 2}
KeySlots == {1, 2}

\* the bodies sent to /token: every well-formed redemption, and one request
\* per code for each way of being malformed
TokenParams ==
    [grant_type : {"authorization_code"}, code : 1..MaxCodes,
     code_verifier : {"v1", "h(v1)"},
     redirect_uri : {"https://a/cb", "https://b/cb", ""}]
    \cup [grant_type : {"refresh_token"}, code : 1..MaxCodes,
          code_verifier : {"v1"}, redirect_uri : {""}]
    \cup [grant_type : {"authorization_code"}, code : 1..MaxCodes,
          code_verifier : {""}, redirect_uri : {""}]
    \cup [grant_type : {"authorization_code"}, code : {0},
          code_verifier : {"v1"}, redirect_uri : {""}]

\* the redemptions two racing clients send: good or bad verifier, redirect
\* URI given or omitted
RaceParams ==
    [grant_type : {"authorization_code"}, code : 1..MaxCodes,
     code_verifier : {"v1", "h(v1)"}, redirect_uri : {"https://a/cb", ""}]

Idle == [pc |-> "idle"]

NotIssued == [code |-> 0]

\* the lowest slot that holds no request in flight
FreeSlot(slots, usable, r) ==
    /\ r \in usable
    /\ slots[r].pc \in {"idle", "done"}
    /\ \A q \in DOMAIN slots : slots[q].pc \in {"idle", "done"} => ~(q < r)

\* formData.get of a field the form does not carry (null)
Absent == "(absent)"

\* a text as the sequence of its characters; a run of characters that
\* escapeHtml leaves alone is kept as one element
Text(s) ==
    IF s = "" THEN << >>
    ELSE IF s = "a&b<c>\"d" THEN <<"a", "&", "b", "<", "c", ">", "\"", "d">>
    ELSE <<s>>

\* the texts that occur as field values
FieldValues ==
    {"", "xyz", "a&b<c>\"d", "client_1", "client_2", "https://a/cb",
     "https://b/cb", "https://B/cb", "not a url", "h(v1)", "S256", "plain",
     "mcp:tools", "mcp:read", "https://r"}

\* the text with the given characters
Str(chars) ==
    IF \E s \in FieldValues : Text(s) = chars
    THEN CHOOSE s \in FieldValues : Text(s) = chars
    ELSE "(other)"

RECURSIVE ReplaceAll(_, _, _)
\* String.prototype.replace(/from/g, to), to given by its characters
ReplaceAll(chars, from, to) ==
    IF chars = << >> THEN << >>
    ELSE (IF Head(chars) = from THEN to ELSE <<Head(chars)>>)
             \o ReplaceAll(Tail(chars), from, to)

\* the four character references that escapeHtml writes
Amp == <<"&", "a", "m", "p", ";">>
Lt == <<"&", "l", "t", ";">>
Gt == <<"&", "g", "t", ";">>
Quot == <<"&", "q", "u", "o", "t", ";">>

\* mutant: the ampersand is replaced last, after the other three
EscapeHtml_AmpLast(chars) ==
    ReplaceAll(ReplaceAll(ReplaceAll(ReplaceAll(chars, "<", Lt), ">", Gt),
                          "\"", Quot), "&", Amp)

\* escapeHtml
EscapeHtml(chars) ==
    ReplaceAll(ReplaceAll(ReplaceAll(ReplaceAll(chars, "&", Amp), "<", Lt),
                          ">", Gt), "\"", Quot)

\* the character references a browser resolves in an attribute value
Entities ==
    {[name |-> Amp, char |-> "&"], [name |-> Lt, char |-> "<"],
     [name |-> Gt, char |-> ">"], [name |-> Quot, char |-> "\""]}

\* chars begins with prefix
StartsWith(chars, prefix) ==
    /\ Len(chars) >= Len(prefix)
    /\ SubSeq(chars, 1, Len(prefix)) = prefix

RECURSIVE DecodeHtml(_)
\* the value a browser reads from an attribute written by escapeHtml
DecodeHtml(chars) ==
    IF chars = << >> THEN << >>
    ELSE IF \E e \in Entities : StartsWith(chars, e.name)
         THEN LET e == CHOOSE x \in Entities : StartsWith(chars, x.name)
              IN <<e.char>> \o DecodeHtml(SubSeq(chars, Len(e.name) + 1, Len(chars)))
         ELSE <<Head(chars)>> \o DecodeHtml(Tail(chars))

\* escapeHtml(str) throws a TypeError when str is null
EscapeThrows(params) ==
    Absent \in {params.clientId, params.redirectUri, params.state,
                params.codeChallenge}

\* buildAuthorizePageHtml: the hidden fields of the form and its error line
BuildAuthorizePageHtml(params) ==
    [client_id |-> EscapeHtml(Text(params.clientId)),
     redirect_uri |-> EscapeHtml(Text(params.redirectUri)),
     state |-> EscapeHtml(Text(params.state)),
     code_challenge |-> EscapeHtml(Text(params.codeChallenge)),
     code_challenge_method |-> EscapeHtml(Text(params.codeChallengeMethod)),
     scope |-> EscapeHtml(Text(params.scope)),
     resource |-> EscapeHtml(Text(IF params.resource = Absent THEN ""
                                  ELSE params.resource)),
     error |-> << >>]

\* html.replace of the empty error line by one that shows the message
ShowError(html, message) == [html EXCEPT !.error = EscapeHtml(Text(message))]

\* value || fallback, for a form or query value
OrElse(value, fallback) == IF value \in {"", Absent} THEN fallback ELSE value

\* redirectUrl.toString() without the query
Href(s) == IF s = "https://B/cb" THEN "https://b/cb" ELSE s

\* the request as handleAuthorizePost holds it once the form has been read
\* and loadKeys has delivered the key data
SubmitRead(form, orig, store) ==
    [pc |-> "validated", form |-> form, orig |-> orig,
     apiKey |-> form.api_key, clientId |-> form.client_id,
     redirectUri |-> form.redirect_uri, state |-> form.state,
     codeChallenge |-> form.code_challenge,
     codeChallengeMethod |-> OrElse(form.code_challenge_method, "S256"),
     scope |-> OrElse(form.scope, "mcp:tools"),
     resource |-> OrElse(form.resource, Absent),
     keyData |-> IF form.api_key \in {"", Absent} THEN NoKeyData
                 ELSE KeyDataOf(store, form.api_key)]

(* POST /authorize/submit: the form is read and validateApiKey's loadKeys
   reads the key file *)
SubmitRecv(r) ==
    /\ FreeSlot(sub, SubSlots, r)
    /\ nextCode < MaxCodes
    /\ \E k \in env.submitKeys, u \in env.submitUris,
          ch \in env.challenges, m \in env.methods, sc \in env.scopes,
          id \in env.clientIds, st \in env.states, rs \in env.resources :
         LET form == [api_key |-> k, client_id |-> id, redirect_uri |-> u,
                      state |-> st, code_challenge |-> ch,
                      code_challenge_method |-> m, scope |-> sc,
                      resource |-> rs]
         IN sub' = [sub EXCEPT ![r] = SubmitRead(form, form, keyFile)]
    /\ UNCHANGED <<now, month, nextSweep, keyFile, authCodes, nextCode, tok,
                   env, mcpVars, regVars, issued, lookups, grants>>

(* POST /authorize/submit sent by the browser from the form that the
   previous answer re-rendered, with another key typed in *)
SubmitAgain(r) ==
    /\ r \in SubSlots
    /\ sub[r].pc = "done"
    /\ "html" \in DOMAIN sub[r].resp
    /\ nextCode < MaxCodes
    /\ \E k \in env.submitKeys :
         LET html == sub[r].resp.html
             form == [api_key |-> k,
                      client_id |-> Str(DecodeHtml(html.client_id)),
                      redirect_uri |-> Str(DecodeHtml(html.redirect_uri)),
                      state |-> Str(DecodeHtml(html.state)),
                      code_challenge |-> Str(DecodeHtml(html.code_challenge)),
                      code_challenge_method |->
                          Str(DecodeHtml(html.code_challenge_method)),
                      scope |-> Str(DecodeHtml(html.scope)),
                      resource |-> Str(DecodeHtml(html.resource))]
         IN sub' = [sub EXCEPT ![r] = SubmitRead(form, sub[r].orig, keyFile)]
    /\ UNCHANGED <<now, month, nextSweep, keyFile, authCodes, nextCode, tok,
                   env, mcpVars, regVars, issued, lookups, grants>>

\* the AuthCode stored by handleAuthorizePost
NewAuthCode(q, code, t) ==
    [code |-> code, clientId |-> q.clientId, redirectUri |-> q.redirectUri,
     codeChallenge |-> q.codeChallenge,
     codeChallengeMethod |-> q.codeChallengeMethod,
     apiKey |-> q.apiKey, scope |-> q.scope, resource |-> q.resource,
     expiresAt |-> t + CodeTtlMs]

\* mutant: a code is issued whatever validateKey answered
MayIssue_Always(authResult) == TRUE

\* validateKey's answer lets handleAuthorizePost issue a code
MayIssue(authResult) == authResult.valid

\* the form parameters handed to buildAuthorizePageHtml
FormParams(q) ==
    [clientId |-> q.clientId, redirectUri |-> q.redirectUri, state |-> q.state,
     codeChallenge |-> q.codeChallenge,
     codeChallengeMethod |-> q.codeChallengeMethod, scope |-> q.scope,
     resource |-> q.resource]

\* the answer to a submit whose key was rejected: the form again, or the
\* server's 500 when building the form threw
RejectedResponse(q, authResult) ==
    IF EscapeThrows(FormParams(q)) THEN [status |-> 500]
    ELSE [status |-> 200,
          html |-> ShowError(BuildAuthorizePageHtml(FormParams(q)),
                             OrElse(authResult.error, "Invalid API key"))]

\* mutant: the state is appended even when it is empty
RedirectQuery_Always(state, code) == [code |-> code, state |-> state]

\* redirectUrl.searchParams after the two set calls
RedirectQuery(state, code) ==
    IF state \in {"", Absent} THEN [code |-> code]
    ELSE [code |-> code, state |-> state]

\* the answer to a submit whose key was accepted: the redirect, or the
\* server's 500 when new URL(redirectUri) threw
AcceptedResponse(q, code) ==
    IF IsUrl(q.redirectUri)
    THEN [status |-> 302, location |-> Href(q.redirectUri),
          query |-> RedirectQuery(q.state, code)]
    ELSE [status |-> 500]

(* handleAuthorizePost after validateKey has answered *)
SubmitFinish(r) ==
    /\ sub[r].pc = "validated"
    /\ LET q == sub[r]
           authResult == ValidateApiKey(IF q.apiKey = Absent THEN "" ELSE q.apiKey,
                                        q.keyData, month)
           code == nextCode + 1
           answer(resp) == IF env.browser
                           THEN [pc |-> "done", form |-> q.form, orig |-> q.orig,
                                 resp |-> resp]
                           ELSE [pc |-> "done", resp |-> resp]
       IN IF ~MayIssue(authResult) THEN
              /\ sub' = [sub EXCEPT ![r] = answer(RejectedResponse(q, authResult))]
              /\ UNCHANGED <<authCodes, nextCode, issued>>
          ELSE
              /\ authCodes' = authCodes @@ (code :> NewAuthCode(q, code, now))
              /\ nextCode' = code
              /\ issued' = [issued EXCEPT ![code] = NewAuthCode(q, code, now)]
              /\ sub' = [sub EXCEPT ![r] = answer(AcceptedResponse(q, code))]
    /\ UNCHANGED <<now, month, nextSweep, keyFile, tok, env, mcpVars, regVars,
                   lookups, grants>>

(* POST /token: the body is being read *)
TokenRecv(r) ==
    /\ FreeSlot(tok, env.tokSlots, r)
    /\ \E p \in env.tokenParams :
         tok' = [tok EXCEPT ![r] = [pc |-> "parsed", params |-> p]]
    /\ UNCHANGED <<now, month, nextSweep, keyFile, authCodes, nextCode, sub,
                   env, mcpVars, regVars, issued, lookups, grants>>

(* handleToken from the parsed parameters to the response *)
TokenRun(r) ==
    /\ tok[r].pc = "parsed"
    /\ LET p == tok[r].params
           resp == TokenResponse(p, authCodes, now)
       IN /\ tok' = [tok EXCEPT ![r] = [pc |-> "done", params |-> p, resp |-> resp]]
          /\ IF FindsCode(p, authCodes)
             THEN /\ authCodes' = DeleteCode(authCodes, p.code)
                  /\ lookups' = [lookups EXCEPT ![p.code] = @ + 1]
             ELSE UNCHANGED <<authCodes, lookups>>
          /\ grants' = IF resp.status = 200 /\ p.code \in DOMAIN grants
                       THEN [grants EXCEPT ![p.code] = @ + 1]
                       ELSE grants
    /\ UNCHANGED <<now, month, nextSweep, keyFile, nextCode, sub, env, mcpVars, regVars,
                   issued>>

\* mutant: the sweep removes nothing
SweepKeeps_All(codes, t) == codes

\* the codes the sweep keeps at time t
SweepKeeps(codes, t) ==
    [c \in {d \in DOMAIN codes : ~(t > codes[d].expiresAt)} |-> codes[c]]

(* the setInterval callback *)
Sweep ==
    /\ now >= nextSweep
    /\ authCodes' = SweepKeeps(authCodes, now)
    /\ nextSweep' = nextSweep + SweepIntervalMs
    /\ UNCHANGED <<now, month, keyFile, nextCode, sub, tok, env, mcpVars, regVars, issued,
                   lookups, grants>>

(* the clock advances within the month; a due timer fires first *)
Tick ==
    /\ now < nextSweep
    /\ now + TickMs <= MaxTicks * TickMs
    /\ now' = now + TickMs
    /\ UNCHANGED <<month, nextSweep, keyFile, authCodes, nextCode, sub, tok,
                   env, mcpVars, regVars, issued, lookups, grants>>

---------------------------------------------------------------------------
(* The OAuth bridge *)

KeyData(tier, active, used) ==
    [tier |-> tier, active |-> active, usage |-> (0 :> used)]

OAuthStart ==
    /\ now = 0 /\ month = 0 /\ nextSweep = SweepIntervalMs
    /\ keyFile = ("kA" :> KeyData("free", TRUE, 0)) @@
                 ("kB" :> KeyData("free", FALSE, 0))
    /\ authCodes = << >>
    /\ nextCode = 0
    /\ sub = [r \in SubSlots |-> Idle]
    /\ tok = [r \in TokSlots |-> Idle]
    /\ issued = [c \in 1..MaxCodes |-> NotIssued]
    /\ lookups = [c \in 1..MaxCodes |-> 0]
    /\ grants = [c \in 1..MaxCodes |-> 0]
    /\ mcp = [r \in McpSlots |-> Idle]
    /\ transports = << >>
    /\ nextSid = 0
    /\ adm = Idle
    /\ registeredClients = << >>
    /\ nextClient = 0
    /\ web = Idle
    /\ signup = [r \in KeySlots |-> Idle]
    /\ nextKey = 0
    /\ shutdown = [pc |-> "running"]

\* token requests one at a time, every kind of request
OAuthInit ==
    /\ OAuthStart
    /\ env = [submitKeys |-> {"kA", "kB", ""}, submitUris |-> {"https://a/cb"},
              clientIds |-> {"client_1"}, states |-> {"xyz"}, resources |-> {""},
              browser |-> FALSE, registerBodies |-> {}, authorizeQueries |-> {},
              challenges |-> {"h(v1)"}, methods |-> {"S256", "plain", ""},
              scopes |-> {"", "mcp:read"},
              tokSlots |-> {1}, tokenParams |-> TokenParams,
              mcpSlots |-> {}, concurrency |-> 0, mcpRequests |-> {},
              deactivate |-> {}]

\* two token requests in flight at once
RaceInit ==
    /\ OAuthStart
    /\ env = [submitKeys |-> {"kA"}, submitUris |-> {"https://a/cb"},
              challenges |-> {"h(v1)"}, methods |-> {"S256"}, scopes |-> {""},
              clientIds |-> {"client_1"}, states |-> {"xyz"}, resources |-> {""},
              browser |-> FALSE, registerBodies |-> {}, authorizeQueries |-> {},
              tokSlots |-> {1, 2}, tokenParams |-> RaceParams,
              mcpSlots |-> {}, concurrency |-> 0, mcpRequests |-> {},
              deactivate |-> {}]

\* `client_${randomBytes(16).toString("hex")}`
GeneratedId(n) == "client_gen" \o ToString(n)

\* the RegisteredClient built by handleRegister from the fields read off the
\* parsed body (a value that is not an object has none of them)
NewClient(body, clientId) ==
    [clientId |-> clientId,
     redirectUris |-> IF body.hasUris THEN body.redirect_uris
                      ELSE <<"http://127.0.0.1/callback", "http://localhost/callback">>,
     clientName |-> OrElse(body.client_name, "MCP Client"),
     grantTypes |-> <<"authorization_code">>,
     responseTypes |-> <<"code">>,
     tokenEndpointAuthMethod |-> "none"]

\* mutant: an id that is already registered keeps its entry
SetClient_KeepFirst(clients, clientId, client) ==
    [c \in (DOMAIN clients) \cup {clientId} |->
        IF c \in DOMAIN clients THEN clients[c] ELSE client]

\* registeredClients.set(clientId, client)
SetClient(clients, clientId, client) ==
    [c \in (DOMAIN clients) \cup {clientId} |->
        IF c = clientId THEN client ELSE clients[c]]

\* req.json() resolves and body.client_id can be read
RegisterReads(body) == body.kind \in {"object", "scalar"}

(* POST /register *)
Register ==
    /\ \E body \in env.registerBodies :
         IF ~RegisterReads(body) THEN
             /\ web' = [pc |-> "done", op |-> "register", req |-> body,
                        resp |-> [status |-> 400, error |-> "invalid_request"]]
             /\ UNCHANGED <<registeredClients, nextClient>>
         ELSE
             /\ body.client_id = "" => nextClient < MaxClients
             /\ LET clientId == OrElse(body.client_id, GeneratedId(nextClient + 1))
                    client == NewClient(body, clientId)
                IN /\ registeredClients' = SetClient(registeredClients, clientId, client)
                   /\ nextClient' = IF body.client_id = "" THEN nextClient + 1
                                    ELSE nextClient
                   /\ web' = [pc |-> "done", op |-> "register", req |-> body,
                              resp |-> [status |-> 201, client_id |-> client.clientId,
                                        client_name |-> client.clientName,
                                        redirect_uris |-> client.redirectUris]]
    /\ UNCHANGED <<month, keyFile, env, mcpVars, now, nextSweep, authCodes,
                   nextCode, sub, tok, issued, lookups, grants>>

\* the parameters handleAuthorizeGet reads from the query
QueryParams(query) ==
    [clientId |-> OrElse(query.client_id, ""),
     redirectUri |-> OrElse(query.redirect_uri, ""),
     state |-> OrElse(query.state, ""),
     codeChallenge |-> OrElse(query.code_challenge, ""),
     codeChallengeMethod |-> OrElse(query.code_challenge_method, "S256"),
     scope |-> OrElse(query.scope, "mcp:tools"),
     resource |-> OrElse(query.resource, Absent)]

\* mutant: the form is rendered whatever the redirect URI
AuthorizeGetResponse_NoCheck(query) ==
    [status |-> 200, html |-> BuildAuthorizePageHtml(QueryParams(query))]

\* handleAuthorizeGet
AuthorizeGetResponse(query) ==
    IF QueryParams(query).redirectUri = ""
    THEN [status |-> 400, body |-> "Missing redirect_uri"]
    ELSE [status |-> 200, html |-> BuildAuthorizePageHtml(QueryParams(query))]

(* GET /authorize *)
AuthorizeGet ==
    /\ \E query \in env.authorizeQueries :
         web' = [pc |-> "done", op |-> "authorize", req |-> query,
                 resp |-> AuthorizeGetResponse(query)]
    /\ UNCHANGED <<month, keyFile, env, mcpVars, now, nextSweep, authCodes,
                   nextCode, sub, tok, issued, lookups, grants,
                   registeredClients, nextClient>>

\* the bodies sent to /register
RegisterBodies ==
    {[kind |-> "unparsable"], [kind |-> "null"]}
    \cup [kind : {"object"}, client_id : {"", "client_1"},
          hasUris : BOOLEAN, redirect_uris : {<<"https://a/cb">>},
          client_name : {"", "xyz"}]
    \cup {[kind |-> "scalar", client_id |-> "", hasUris |-> FALSE,
           redirect_uris |-> << >>, client_name |-> ""]}

\* the queries sent to GET /authorize
AuthorizeQueries ==
    [client_id : {"client_1"}, redirect_uri : {Absent, "", "https://a/cb"},
     state : {Absent, "a&b<c>\"d"}, code_challenge : {"h(v1)"},
     code_challenge_method : {Absent, "plain"}, scope : {Absent},
     resource : {Absent, "https://r"}]

\* every kind of registration and of authorization query
FrontInit ==
    /\ OAuthStart
    /\ env = [submitKeys |-> {}, submitUris |-> {}, clientIds |-> {},
              states |-> {}, challenges |-> {}, methods |-> {}, scopes |-> {},
              resources |-> {},
              browser |-> FALSE, registerBodies |-> RegisterBodies,
              authorizeQueries |-> AuthorizeQueries,
              tokSlots |-> {}, tokenParams |-> {},
              mcpSlots |-> {}, concurrency |-> 0, mcpRequests |-> {},
              deactivate |-> {}]

FrontNext ==
    \/ Register
    \/ AuthorizeGet

FrontSpec == FrontInit /\ [][FrontNext]_vars

\* one client registers; every kind of form is submitted
AuthzInit ==
    /\ OAuthStart
    /\ env = [submitKeys |-> {"kA", "kB"},
              submitUris |-> {"https://a/cb", "https://B/cb", ""},
              clientIds |-> {"client_1"},
              states |-> {"", "a&b<c>\"d", Absent},
              challenges |-> {"h(v1)"}, methods |-> {"plain", ""},
              scopes |-> {"", "mcp:read"}, resources |-> {"", "https://r"},
              browser |-> TRUE,
              registerBodies |-> {[kind |-> "object", client_id |-> "client_1",
                                   hasUris |-> TRUE,
                                   redirect_uris |-> <<"https://a/cb">>,
                                   client_name |-> ""]},
              authorizeQueries |-> {},
              tokSlots |-> {}, tokenParams |-> {},
              mcpSlots |-> {}, concurrency |-> 0, mcpRequests |-> {},
              deactivate |-> {}]

AuthzNext ==
    \/ Register
    \/ \E r \in SubSlots : SubmitRecv(r)
    \/ \E r \in SubSlots : SubmitAgain(r)
    \/ \E r \in SubSlots : SubmitFinish(r)

AuthzSpec == AuthzInit /\ [][AuthzNext]_vars

OAuthNext ==
    \/ \E r \in SubSlots : SubmitRecv(r)
    \/ \E r \in SubSlots : SubmitFinish(r)
    \/ \E r \in TokSlots : TokenRecv(r)
    \/ \E r \in TokSlots : TokenRun(r)
    \/ Sweep
    \/ Tick

OAuthSpec == OAuthInit /\ [][OAuthNext]_vars

RaceSpec == RaceInit /\ [][OAuthNext]_vars

\* the bodies sent to /token by clients that try every way of failing:
\* redemptions with a fitting, a wrong or no redirect URI, and requests with
\* another grant type or without code or verifier
RedeemParams ==
    [grant_type : {"authorization_code"}, code : 1..MaxCodes,
     code_verifier : {"v1", "h(v1)"},
     redirect_uri : {"https://a/cb", "https://b/cb", ""}]
    \cup [grant_type : {"refresh_token"}, code : 0..MaxCodes,
          code_verifier : {"", "v1"}, redirect_uri : {""}]
    \cup [grant_type : {"authorization_code"}, code : 0..MaxCodes,
          code_verifier : {""}, redirect_uri : {""}]
    \cup [grant_type : {"authorization_code"}, code : {0},
          code_verifier : {"v1"}, redirect_uri : {""}]

\* codes issued under either method
RedeemInit ==
    /\ OAuthStart
    /\ env = [submitKeys |-> {"kA"}, submitUris |-> {"https://a/cb"},
              clientIds |-> {"client_1"}, states |-> {"xyz"}, resources |-> {""},
              browser |-> FALSE, registerBodies |-> {}, authorizeQueries |-> {},
              challenges |-> {"h(v1)"},
              methods |-> {"S256", "plain"}, scopes |-> {""},
              tokSlots |-> {1}, tokenParams |-> RedeemParams,
              mcpSlots |-> {}, concurrency |-> 0, mcpRequests |-> {},
              deactivate |-> {}]

\* the redemptions of a client that tries each verifier, with or without one
PkceParams ==
    [grant_type : {"authorization_code"}, code : 1..MaxCodes,
     code_verifier : {"v1", "h(v1)", ""}, redirect_uri : {""}]

\* codes issued with a challenge, with an empty one and with none
PkceInit ==
    /\ OAuthStart
    /\ env = [submitKeys |-> {"kA"}, submitUris |-> {"https://a/cb"},
              clientIds |-> {"client_1"}, states |-> {"xyz"}, resources |-> {""},
              browser |-> FALSE, registerBodies |-> {}, authorizeQueries |-> {},
              challenges |-> {"h(v1)", "", Absent},
              methods |-> {"S256", "plain"}, scopes |-> {""},
              tokSlots |-> {1}, tokenParams |-> PkceParams,
              mcpSlots |-> {}, concurrency |-> 0, mcpRequests |-> {},
              deactivate |-> {}]

PkceSpec == PkceInit /\ [][OAuthNext]_vars

RedeemSpec == RedeemInit /\ [][OAuthNext]_vars

---------------------------------------------------------------------------
(* server.ts: the /mcp gateway *)

Methods ==
    {"initialize", "tools/list", "notifications/initialized", "tools/call", "ping"}

\* mutant: every method counts as a discovery method
IsDiscovery_All(method) == TRUE

\* the methods let through without a key
IsDiscovery(method) ==
    method = "initialize" \/ method = "tools/list"
        \/ method = "notifications/initialized"

\* isDiscoveryRequest
IsDiscoveryRequest(q) ==
    q.verb = "POST" /\ q.apiKey = "" /\ IsDiscovery(q.method)

\* mutant: every method on a session is metered
IsToolCall_Any(method) == TRUE

\* body?.method === "tools/call"
IsToolCall(method) == method = "tools/call"

\* validateApiKey was not called, or returned before loadKeys
Unread == [unread |-> TRUE]

DiscoveryAuth == [valid |-> TRUE, error |-> "", tier |-> "discovery"]

\* authResult of the /mcp handler
AuthResult(q, keyData, m) ==
    IF IsDiscoveryRequest(q) THEN DiscoveryAuth
    ELSE ValidateApiKey(q.apiKey, keyData, m)

\* oauthConfig.issuerUrl
IssuerUrl == "https://social.ezbizservices.com"

\* the WWW-Authenticate header built by unauthorizedResponse
BearerChallenge(issuerUrl) ==
    "Bearer resource_metadata=\"" \o issuerUrl
        \o "/.well-known/oauth-protected-resource\""

\* unauthorizedResponse of lib/oauth.ts; server.ts imports it and never
\* calls it
UnauthorizedResponse(issuerUrl) ==
    [status |-> 401, code |-> -32001, message |-> "Authorization required",
     dispatched |-> FALSE, wwwAuthenticate |-> BearerChallenge(issuerUrl)]

\* the JSON-RPC error responses of the /mcp handler: Response.json with a
\* status and no headers
McpError(status, code, message) ==
    [status |-> status, code |-> code, message |-> message, dispatched |-> FALSE,
     wwwAuthenticate |-> ""]

\* recordUsage between loadKeys and saveKeys
RecordUsage(store, key, m) ==
    [store EXCEPT ![key].usage = (m :> (UsageOf(store[key], m) + 1)) @@ @]

\* deactivateKey between loadKeys and saveKeys
Deactivated(store, key) == [store EXCEPT ![key].active = FALSE]

\* delete transports[sid]
CloseSession(sessions, sid) ==
    [t \in (DOMAIN sessions) \ {sid} |-> sessions[t]]

InFlight(r) == mcp[r].pc \notin {"idle", "done"}

\* the handlers and key-store calls that have not returned yet
Busy ==
    Cardinality({r \in McpSlots : InFlight(r)})
        + (IF adm.pc = "idle" THEN 0 ELSE 1)

\* in-flight requests that may still start a session
Opening ==
    Cardinality({r \in McpSlots :
                   InFlight(r) /\ mcp[r].req.verb = "POST"
                       /\ mcp[r].req.method = "initialize"})

(* a request reaches the /mcp handler: the key is extracted, the discovery
   check reads the body, and validateApiKey's loadKeys reads the key file *)
McpRecv(r) ==
    /\ FreeSlot(mcp, env.mcpSlots, r)
    /\ Busy < env.concurrency
    /\ \E q \in env.mcpRequests :
         /\ q.sessionId <= nextSid
         /\ (q.verb = "POST" /\ q.method = "initialize")
                => nextSid + Opening < MaxSessions
         /\ mcp' = [mcp EXCEPT ![r] =
                      [pc |-> "validated", req |-> q,
                       keyData |-> IF q.apiKey = "" THEN Unread
                                   ELSE KeyDataOf(keyFile, q.apiKey)]]
    /\ UNCHANGED <<month, keyFile, env, oauthVars, sysVars, transports, nextSid, adm>>

(* the /mcp handler with the new-session branch open to every verb *)
McpRoute_AnyVerb(r) ==
    /\ mcp[r].pc = "validated"
    /\ LET s == mcp[r]
           q == s.req
           authResult == AuthResult(q, s.keyData, month)
           answer(resp) == [pc |-> "done", req |-> q, keyData |-> s.keyData,
                            resp |-> resp]
           goto(pc, target) == [pc |-> pc, req |-> q, keyData |-> s.keyData,
                                target |-> target]
       IN mcp' = [mcp EXCEPT ![r] =
            IF ~authResult.valid THEN
                answer(McpError(401, -32001, authResult.error))
            ELSE IF q.sessionId # 0 /\ q.sessionId \in DOMAIN transports THEN
                IF q.verb = "POST" /\ IsToolCall(q.method) THEN
                    IF q.apiKey = "" THEN
                        answer(McpError(401, -32001, "API key required for tool calls."))
                    ELSE goto("record", q.sessionId)
                ELSE goto("dispatch", q.sessionId)
            ELSE IF q.apiKey # "" THEN goto("record", 0) ELSE goto("dispatch", 0)]
    /\ UNCHANGED <<month, keyFile, env, oauthVars, sysVars, transports, nextSid, adm>>

(* the /mcp handler from validateApiKey's answer to the next key-store call *)
McpRoute(r) ==
    /\ mcp[r].pc = "validated"
    /\ LET s == mcp[r]
           q == s.req
           authResult == AuthResult(q, s.keyData, month)
           answer(resp) == [pc |-> "done", req |-> q, keyData |-> s.keyData,
                            resp |-> resp]
           goto(pc, target) == [pc |-> pc, req |-> q, keyData |-> s.keyData,
                                target |-> target]
       IN mcp' = [mcp EXCEPT ![r] =
            IF ~authResult.valid THEN
                answer(McpError(401, -32001, authResult.error))
            ELSE IF q.sessionId # 0 /\ q.sessionId \in DOMAIN transports THEN
                IF q.verb = "POST" /\ IsToolCall(q.method) THEN
                    IF q.apiKey = "" THEN
                        answer(McpError(401, -32001, "API key required for tool calls."))
                    ELSE goto("record", q.sessionId)
                ELSE goto("dispatch", q.sessionId)
            ELSE IF q.verb = "POST" THEN
                IF q.apiKey # "" THEN goto("record", 0) ELSE goto("dispatch", 0)
            ELSE answer(McpError(400, -32000, "Bad request"))]
    /\ UNCHANGED <<month, keyFile, env, oauthVars, sysVars, transports, nextSid, adm>>

(* recordUsage: loadKeys has read the file and the counter is raised in
   memory *)
McpRecordLoad(r) ==
    /\ mcp[r].pc = "record"
    /\ LET s == mcp[r]
       IN mcp' = [mcp EXCEPT ![r] =
            IF s.req.apiKey \notin DOMAIN keyFile
            THEN [pc |-> "dispatch", req |-> s.req, keyData |-> s.keyData,
                  target |-> s.target]
            ELSE [pc |-> "save", req |-> s.req, keyData |-> s.keyData,
                  target |-> s.target,
                  store |-> RecordUsage(keyFile, s.req.apiKey, month)]]
    /\ UNCHANGED <<month, keyFile, env, oauthVars, sysVars, transports, nextSid, adm>>

(* recordUsage: saveKeys writes the whole store back *)
McpRecordSave(r) ==
    /\ mcp[r].pc = "save"
    /\ keyFile' = mcp[r].store
    /\ mcp' = [mcp EXCEPT ![r] =
                 [pc |-> "dispatch", req |-> @.req, keyData |-> @.keyData,
                  target |-> @.target]]
    /\ UNCHANGED <<month, env, oauthVars, sysVars, transports, nextSid, adm>>

\* the channel's answer to a request on a transport
ChannelResponse(q, target, sid) ==
    IF target = 0 THEN
        IF q.method = "initialize"
        THEN [status |-> 200, sessionId |-> sid, dispatched |-> TRUE]
        ELSE [status |-> 400, sessionId |-> 0, dispatched |-> TRUE]
    ELSE IF q.verb = "POST" /\ q.method = "initialize"
        THEN [status |-> 400, sessionId |-> target, dispatched |-> TRUE]
        ELSE [status |-> 200, sessionId |-> target, dispatched |-> TRUE]

(* transport.handleRequest(req), with the onsessioninitialized and
   onsessionclosed callbacks *)
McpDispatch(r) ==
    /\ mcp[r].pc = "dispatch"
    /\ LET s == mcp[r]
           q == s.req
           sid == nextSid + 1
       IN /\ mcp' = [mcp EXCEPT ![r] =
                       [pc |-> "done", req |-> q, keyData |-> s.keyData,
                        resp |-> ChannelResponse(q, s.target, sid)]]
          /\ IF s.target = 0 /\ q.method = "initialize" THEN
                 /\ transports' = transports @@ (sid :> [apiKey |-> q.apiKey])
                 /\ nextSid' = sid
             ELSE IF s.target # 0 /\ q.verb = "DELETE" THEN
                 /\ transports' = CloseSession(transports, s.target)
                 /\ UNCHANGED nextSid
             ELSE UNCHANGED <<transports, nextSid>>
    /\ UNCHANGED <<month, keyFile, env, oauthVars, sysVars, adm>>

(* deactivateKey: loadKeys has read the file *)
DeactivateLoad ==
    /\ adm.pc = "idle"
    /\ Busy < env.concurrency
    /\ \E k \in env.deactivate :
         /\ k \in DOMAIN keyFile
         /\ keyFile[k].active
         /\ adm' = [pc |-> "save", store |-> Deactivated(keyFile, k)]
    /\ UNCHANGED <<month, keyFile, env, oauthVars, sysVars, mcp, transports, nextSid>>

(* deactivateKey: saveKeys writes the whole store back *)
DeactivateSave ==
    /\ adm.pc = "save"
    /\ keyFile' = adm.store
    /\ adm' = Idle
    /\ UNCHANGED <<month, env, oauthVars, sysVars, mcp, transports, nextSid>>

\* the requests sent to /mcp
McpRequests(verbs, keys, methods) ==
    [verb : verbs, apiKey : keys, method : methods, sessionId : 0..MaxSessions]

McpStart ==
    /\ now = 0 /\ month = 0 /\ nextSweep = SweepIntervalMs
    /\ keyFile = ("kA" :> KeyData("free", TRUE, LimitFree - Headroom)) @@
                 ("kB" :> KeyData("free", FALSE, 0))
    /\ authCodes = << >>
    /\ nextCode = 0
    /\ sub = [r \in SubSlots |-> Idle]
    /\ tok = [r \in TokSlots |-> Idle]
    /\ issued = [c \in 1..MaxCodes |-> NotIssued]
    /\ lookups = [c \in 1..MaxCodes |-> 0]
    /\ grants = [c \in 1..MaxCodes |-> 0]
    /\ mcp = [r \in McpSlots |-> Idle]
    /\ transports = << >>
    /\ nextSid = 0
    /\ adm = Idle
    /\ registeredClients = << >>
    /\ nextClient = 0
    /\ web = Idle
    /\ signup = [r \in KeySlots |-> Idle]
    /\ nextKey = 0
    /\ shutdown = [pc |-> "running"]

\* two requests and a deactivation may be in flight together
McpInit ==
    /\ McpStart
    /\ env = [submitKeys |-> {}, submitUris |-> {}, challenges |-> {},
              clientIds |-> {}, states |-> {}, resources |-> {},
              browser |-> FALSE, registerBodies |-> {}, authorizeQueries |-> {},
              methods |-> {}, scopes |-> {}, tokSlots |-> {}, tokenParams |-> {},
              mcpSlots |-> {1, 2}, concurrency |-> 3,
              mcpRequests |-> McpRequests({"POST"}, {"kA", ""},
                                          {"initialize", "tools/call"}),
              deactivate |-> {"kA"}]

\* one request or key-store call at a time, every kind of request
SeqInit ==
    /\ McpStart
    /\ env = [submitKeys |-> {}, submitUris |-> {}, challenges |-> {},
              clientIds |-> {}, states |-> {}, resources |-> {},
              browser |-> FALSE, registerBodies |-> {}, authorizeQueries |-> {},
              methods |-> {}, scopes |-> {}, tokSlots |-> {}, tokenParams |-> {},
              mcpSlots |-> {1}, concurrency |-> 1,
              mcpRequests |-> McpRequests({"POST", "GET", "DELETE"},
                                          {"kA", "kB", "kX", ""}, Methods),
              deactivate |-> {"kA"}]

\* two active keys of different tiers, one request at a time
BindInit ==
    /\ now = 0 /\ month = 0 /\ nextSweep = SweepIntervalMs
    /\ keyFile = ("kA" :> KeyData("free", TRUE, LimitFree - Headroom)) @@
                 ("kC" :> KeyData("starter", TRUE, LimitStarter - Headroom))
    /\ authCodes = << >>
    /\ nextCode = 0
    /\ sub = [r \in SubSlots |-> Idle]
    /\ tok = [r \in TokSlots |-> Idle]
    /\ issued = [c \in 1..MaxCodes |-> NotIssued]
    /\ lookups = [c \in 1..MaxCodes |-> 0]
    /\ grants = [c \in 1..MaxCodes |-> 0]
    /\ mcp = [r \in McpSlots |-> Idle]
    /\ transports = << >>
    /\ nextSid = 0
    /\ adm = Idle
    /\ registeredClients = << >>
    /\ nextClient = 0
    /\ web = Idle
    /\ signup = [r \in KeySlots |-> Idle]
    /\ nextKey = 0
    /\ shutdown = [pc |-> "running"]
    /\ env = [submitKeys |-> {}, submitUris |-> {}, challenges |-> {},
              clientIds |-> {}, states |-> {}, resources |-> {},
              browser |-> FALSE, registerBodies |-> {}, authorizeQueries |-> {},
              methods |-> {}, scopes |-> {}, tokSlots |-> {}, tokenParams |-> {},
              mcpSlots |-> {1}, concurrency |-> 1,
              mcpRequests |-> McpRequests({"POST", "DELETE"}, {"kA", "kC"},
                                          {"initialize", "tools/call"}),
              deactivate |-> {"kC"}]

McpNext ==
    \/ \E r \in McpSlots : McpRecv(r)
    \/ \E r \in McpSlots : McpRoute(r)
    \/ \E r \in McpSlots : McpRecordLoad(r)
    \/ \E r \in McpSlots : McpRecordSave(r)
    \/ \E r \in McpSlots : McpDispatch(r)
    \/ DeactivateLoad
    \/ DeactivateSave

McpSpec == McpInit /\ [][McpNext]_vars

SeqSpec == SeqInit /\ [][McpNext]_vars

BindSpec == BindInit /\ [][McpNext]_vars

\* the handler's answer when the new-session path throws
InternalError == McpError(500, -32603, "Internal server error")

\* the runtime's answer when the promise of the fetch handler rejects: status
\* 500 with the runtime's own error page, no JSON-RPC envelope
RuntimeError ==
    [status |-> 500, code |-> 0, message |-> "(runtime error page)",
     dispatched |-> FALSE, wwwAuthenticate |-> ""]

(* recordUsage: saveKeys rejects (mkdir or writeFile fails) and the file is
   left as it was; on an existing session the exception is swallowed by the
   empty catch and the request goes on to the channel, on the new-session
   path the outer catch takes over *)
McpRecordFail(r) ==
    /\ mcp[r].pc = "save"
    /\ LET s == mcp[r]
       IN mcp' = [mcp EXCEPT ![r] =
            [pc |-> IF s.target # 0 THEN "dispatch" ELSE "caught",
             req |-> s.req, keyData |-> s.keyData, target |-> s.target]]
    /\ UNCHANGED <<month, keyFile, env, oauthVars, sysVars, transports, nextSid, adm>>

(* the new-session path: the transport's constructor, createMcpServer or
   mcpServer.connect throws, before the debit of a request with a key *)
McpConnectFail(r) ==
    /\ \/ mcp[r].pc = "record"
       \/ mcp[r].pc = "dispatch" /\ mcp[r].req.apiKey = ""
    /\ mcp[r].target = 0
    /\ mcp' = [mcp EXCEPT ![r].pc = "caught"]
    /\ UNCHANGED <<month, keyFile, env, oauthVars, sysVars, transports, nextSid, adm>>

(* the catch of the new-session path: await log("error", ...) appends to the
   log file and then the fixed envelope is returned; when mkdir or appendFile
   of the log rejects, the handler's promise rejects with it *)
McpLogError(r) ==
    /\ mcp[r].pc = "caught"
    /\ \E logged \in BOOLEAN :
         mcp' = [mcp EXCEPT ![r] =
                   [pc |-> "done", req |-> @.req, keyData |-> @.keyData,
                    resp |-> IF logged THEN InternalError ELSE RuntimeError]]
    /\ UNCHANGED <<month, keyFile, env, oauthVars, sysVars, transports, nextSid, adm>>

\* one request or key-store call at a time; the key file may be unwritable
FaultInit ==
    /\ McpStart
    /\ env = [submitKeys |-> {}, submitUris |-> {}, challenges |-> {},
              clientIds |-> {}, states |-> {}, resources |-> {},
              browser |-> FALSE, registerBodies |-> {}, authorizeQueries |-> {},
              methods |-> {}, scopes |-> {}, tokSlots |-> {}, tokenParams |-> {},
              mcpSlots |-> {1}, concurrency |-> 1,
              mcpRequests |-> McpRequests({"POST", "DELETE"}, {"kA", ""},
                                          {"initialize", "tools/call", "ping"}),
              deactivate |-> {"kA"}]

FaultNext ==
    \/ McpNext
    \/ \E r \in McpSlots : McpRecordFail(r)
    \/ \E r \in McpSlots : McpConnectFail(r)
    \/ \E r \in McpSlots : McpLogError(r)

FaultSpec == FaultInit /\ [][FaultNext]_vars

---------------------------------------------------------------------------
(* Properties of the token endpoint *)

\* request p reaches the code lookup of handleToken
WellFormed(p) ==
    p.grant_type = "authorization_code" /\ p.code # 0 /\ p.code_verifier # ""

\* slot r runs handleToken in this step
Runs(r) == tok[r].pc = "parsed" /\ tok'[r].pc = "done"

InvalidGrant(resp) == resp.status = 400 /\ resp.error = "invalid_grant"

\* C1: authorization codes are single-use. A code is found by at most one
\* /token request and yields at most one success response; every later
\* well-formed /token request naming a code that was already looked up is
\* answered 400 invalid_grant, whatever verifier it presents.
C1_SingleUse ==
    /\ [](\A c \in 1..MaxCodes : lookups[c] <= 1 /\ grants[c] <= 1)
    /\ [][\A r \in TokSlots :
            (Runs(r) /\ WellFormed(tok[r].params)
                /\ lookups[tok[r].params.code] >= 1)
            => InvalidGrant(tok'[r].resp)]_vars

\* a code was redeemed and a later request naming it was turned away
C1_Witness ==
    \E r \in TokSlots, c \in 1..MaxCodes :
        /\ grants[c] = 1
        /\ tok[r].pc = "done" /\ tok[r].params.code = c
        /\ tok[r].params.code_verifier = "v1"
        /\ InvalidGrant(tok[r].resp)
        /\ tok[r].resp.error_description = "Authorization code not found or expired"

\* p is a redemption of the stored code that passes every check but expiry
Correct(p, codes) ==
    /\ FindsCode(p, codes)
    /\ ~RedirectMismatch(p.redirect_uri, codes[p.code])
    /\ Sha256Base64Url(p.code_verifier) = codes[p.code].codeChallenge

\* both slots hold a correct redemption of the same live code
Racing(c) ==
    /\ c \in DOMAIN authCodes
    /\ ~(now > authCodes[c].expiresAt)
    /\ \A r \in TokSlots :
          tok[r].pc = "parsed" /\ tok[r].params.code = c
              /\ Correct(tok[r].params, authCodes)

\* C2: two /token requests with the same valid code, correct verifier and
\* matching redirect URI in flight together: the one whose handler runs first
\* gets the success response, the one that runs after a success on the same
\* code gets invalid_grant, and two successes for one code are never reached.
C2_NoDoubleSpend ==
    /\ [](\A r, q \in TokSlots :
            (r # q /\ tok[r].pc = "done" /\ tok[q].pc = "done"
                /\ tok[r].params.code = tok[q].params.code)
            => ~(tok[r].resp.status = 200 /\ tok[q].resp.status = 200))
    /\ [][\A c \in 1..MaxCodes : \A r \in TokSlots :
            (Racing(c) /\ Runs(r)) => tok'[r].resp.status = 200]_vars
    /\ [][\A r, q \in TokSlots :
            (r # q /\ Runs(r) /\ tok[q].pc = "done" /\ tok[q].resp.status = 200
                /\ tok[q].params.code = tok[r].params.code)
            => InvalidGrant(tok'[r].resp)]_vars

\* two correct redemptions of one code have both been answered: one success,
\* one invalid_grant
C2_Witness ==
    \E r, q \in TokSlots : \E c \in 1..MaxCodes :
        /\ r # q /\ tok[r].pc = "done" /\ tok[q].pc = "done"
        /\ tok[r].params.code = c /\ tok[q].params.code = c
        /\ tok[r].params.code_verifier = "v1" /\ tok[q].params.code_verifier = "v1"
        /\ issued[c].code = c
        /\ tok[r].params.redirect_uri = issued[c].redirectUri
        /\ tok[q].params.redirect_uri = issued[c].redirectUri
        /\ tok[r].resp.status = 200 /\ InvalidGrant(tok[q].resp)

\* C3: a /token request that finds an unexpired code and passes the
\* redirect-URI check succeeds iff base64url(sha256(verifier)) equals the
\* stored challenge (method S256), or the verifier itself does (method plain);
\* every mismatch is answered 400 invalid_grant.
C3_PkceDecides ==
    [][\A r \in TokSlots :
         LET p == tok[r].params
             ac == authCodes[p.code]
             matches == IF ac.codeChallengeMethod = "S256"
                        THEN Sha256Base64Url(p.code_verifier) = ac.codeChallenge
                        ELSE p.code_verifier = ac.codeChallenge
         IN (Runs(r) /\ FindsCode(p, authCodes) /\ ~(now > ac.expiresAt)
                /\ (p.redirect_uri = "" \/ p.redirect_uri = ac.redirectUri)
                /\ ac.codeChallengeMethod \in {"S256", "plain"})
            => /\ (tok'[r].resp.status = 200) <=> matches
               /\ ~matches => InvalidGrant(tok'[r].resp)]_vars

\* an S256 code was redeemed with the verifier whose hash is the challenge
C3_Witness ==
    \E r \in TokSlots, c \in 1..MaxCodes :
        /\ tok[r].pc = "done" /\ tok[r].params.code = c
        /\ issued[c].code = c /\ issued[c].codeChallengeMethod = "S256"
        /\ issued[c].codeChallenge = Sha256Base64Url(tok[r].params.code_verifier)
        /\ tok[r].resp.status = 200

\* C4: a success response of /token carries the API key submitted to the
\* /authorize/submit request that issued the code, token_type Bearer,
\* expires_in 86400 and the scope stored at issuance; and a code is stored
\* only by a submit request whose key validateKey reported valid.
C4_TokenIsValidatedKey ==
    /\ [][\A c \in (DOMAIN authCodes') \ (DOMAIN authCodes) :
            \E r \in SubSlots :
                /\ sub[r].pc = "validated"
                /\ ValidateApiKey(sub[r].apiKey, sub[r].keyData, month).valid
                /\ authCodes'[c].apiKey = sub[r].apiKey
                /\ authCodes'[c].scope = sub[r].scope
                /\ issued'[c] = authCodes'[c]]_vars
    /\ [][\A r \in TokSlots :
            (Runs(r) /\ tok'[r].resp.status = 200)
            => /\ tok[r].params.code \in DOMAIN authCodes
               /\ tok'[r].resp =
                    [status |-> 200,
                     access_token |-> authCodes[tok[r].params.code].apiKey,
                     token_type |-> "Bearer", expires_in |-> 86400,
                     scope |-> authCodes[tok[r].params.code].scope]]_vars

\* a token was handed out for a code issued with a non-default scope
C4_Witness ==
    \E r \in TokSlots, c \in 1..MaxCodes :
        /\ tok[r].pc = "done" /\ tok[r].params.code = c
        /\ tok[r].resp.status = 200
        /\ tok[r].resp.access_token = "kA"
        /\ tok[r].resp.scope = "mcp:read"
        /\ issued[c].apiKey = "kA"

\* the code named by p was issued and its TTL has elapsed
PresentedLate(p) ==
    /\ WellFormed(p)
    /\ p.code \in 1..MaxCodes
    /\ issued[p.code].code = p.code
    /\ now > issued[p.code].expiresAt

\* C5 as claimed: a code presented after its TTL has elapsed is rejected with
\* invalid_grant and the description "Authorization code expired".
C5_AsClaimed ==
    [][\A r \in TokSlots :
         (Runs(r) /\ PresentedLate(tok[r].params))
         => /\ InvalidGrant(tok'[r].resp)
            /\ tok'[r].resp.error_description = "Authorization code expired"]_vars

\* C5 (amended): a code presented after its TTL has elapsed is rejected with
\* invalid_grant; the description is "Authorization code expired" while the
\* code is still stored and "Authorization code not found or expired" once
\* the sweep or an earlier lookup has removed it.
C5_ExpiredRejected ==
    [][\A r \in TokSlots :
         (Runs(r) /\ PresentedLate(tok[r].params))
         => /\ InvalidGrant(tok'[r].resp)
            /\ tok'[r].resp.error_description =
                 IF tok[r].params.code \in DOMAIN authCodes
                 THEN "Authorization code expired"
                 ELSE "Authorization code not found or expired"]_vars

\* a never-looked-up code was swept after expiry and then presented
C5_Witness ==
    \E r \in TokSlots, c \in 1..MaxCodes :
        /\ issued[c].code = c /\ now > issued[c].expiresAt
        /\ lookups[c] = 0 /\ c \notin DOMAIN authCodes
        /\ tok[r].pc = "done" /\ tok[r].params.code = c
        /\ WellFormed(tok[r].params)
        /\ tok[r].resp.error_description = "Authorization code not found or expired"

---------------------------------------------------------------------------
(* Properties of the /mcp gateway *)

\* slot s holds a POST that carries no credential
NoCredential(s) == s.pc # "idle" /\ s.req.apiKey = "" /\ s.req.verb = "POST"

\* slot s holds a request that carries a key
Credentialed(s) == s.pc # "idle" /\ s.req.apiKey # ""

\* a request arrives in slot r in this step
Arrives(r) == mcp[r].pc \in {"idle", "done"} /\ mcp'[r].pc = "validated"

\* slot r takes a step of its handler
Steps(r) == mcp'[r] # mcp[r]

\* C6: a POST without credential whose method is initialize, tools/list or
\* notifications/initialized never has the key store read for it, is never in
\* recordUsage, changes no usage and is handed to a channel; a POST without
\* credential whose method is tools/call, on an existing session or on none,
\* never reaches recordUsage or a channel and is answered 401 with JSON-RPC
\* error code -32001.
C6_DiscoveryOpen ==
    /\ [](\A r \in McpSlots :
            LET s == mcp[r]
            IN /\ (NoCredential(s)
                     /\ s.req.method \in {"initialize", "tools/list",
                                          "notifications/initialized"})
                  => /\ s.keyData = Unread
                     /\ s.pc \in {"validated", "dispatch", "done"}
                     /\ s.pc = "done" => s.resp.dispatched /\ s.resp.status # 401
               /\ (NoCredential(s) /\ s.req.method = "tools/call")
                  => /\ s.pc \in {"validated", "done"}
                     /\ s.pc = "done" =>
                           /\ s.resp.status = 401 /\ s.resp.code = -32001
                           /\ ~s.resp.dispatched)
    /\ [][\A r \in McpSlots :
            (NoCredential(mcp[r]) /\ Steps(r)) => keyFile' = keyFile]_vars

\* a session was opened without a key and a tools/call without a key on that
\* session was turned away
C6_Witness ==
    \E r \in McpSlots :
        /\ mcp[r].pc = "done" /\ NoCredential(mcp[r])
        /\ mcp[r].req.method = "tools/call"
        /\ mcp[r].req.sessionId \in DOMAIN transports
        /\ transports[mcp[r].req.sessionId].apiKey = ""
        /\ mcp[r].resp.status = 401 /\ mcp[r].resp.code = -32001

\* the channel answers the request of slot r in this step
Answers(r) == mcp[r].pc = "dispatch" /\ mcp'[r].pc = "done"

\* C7: with requests handled one after the other, a request with key k that
\* is handed to a channel leaves k's usage at its value on arrival plus one
\* if it creates a session or is a tools/call on an existing session, and at
\* its value on arrival if it is any other request on an existing session.
C7_ExactMetering ==
    [][\A r \in McpSlots :
         LET s == mcp[r]
             k == s.req.apiKey
             u == UsageOf(s.keyData, month)
             v == UsageOf(keyFile'[k], month)
         IN (Answers(r) /\ k \in DOMAIN keyFile)
            => /\ (s.target = 0 /\ s.req.method = "initialize") => v = u + 1
               /\ (s.target # 0 /\ s.req.verb = "POST"
                      /\ s.req.method = "tools/call") => v = u + 1
               /\ (s.target # 0 /\ ~(s.req.verb = "POST"
                      /\ s.req.method = "tools/call")) => v = u]_vars

\* key kA opened a session and invoked one tool on it: usage u + 1 + 1
C7_Witness ==
    \E r \in McpSlots :
        /\ mcp[r].pc = "done" /\ mcp[r].req.apiKey = "kA"
        /\ mcp[r].req.verb = "POST" /\ mcp[r].req.method = "tools/call"
        /\ mcp[r].resp.dispatched /\ mcp[r].resp.status = 200
        /\ mcp[r].req.sessionId \in DOMAIN transports
        /\ transports[mcp[r].req.sessionId].apiKey = "kA"
        /\ UsageOf(keyFile["kA"], month) = (LimitFree - Headroom) + 1 + 1

\* the key data read for slot s shows a deactivated key or a spent allowance
Spent(s) ==
    /\ s.keyData # NoKeyData
    /\ \/ ~s.keyData.active
       \/ UsageOf(s.keyData, month) >= TIER_LIMITS[s.keyData.tier]

\* C8: every request that carries a key, on an existing session or not, has
\* the key's data read from the key file as it stands when the request
\* arrives; when that data shows the key deactivated or at its monthly limit
\* the request never reaches recordUsage or a channel, leaves the key file
\* alone and is answered 401.
C8_ValidatedOnArrival ==
    /\ [][\A r \in McpSlots :
            (Arrives(r) /\ mcp'[r].req.apiKey # "")
            => mcp'[r].keyData = KeyDataOf(keyFile, mcp'[r].req.apiKey)]_vars
    /\ [](\A r \in McpSlots :
            LET s == mcp[r]
            IN (Credentialed(s) /\ Spent(s))
               => /\ s.pc \in {"validated", "done"}
                  /\ s.pc = "done" => s.resp.status = 401 /\ ~s.resp.dispatched)
    /\ [][\A r \in McpSlots :
            (Credentialed(mcp[r]) /\ Spent(mcp[r]) /\ mcp[r].pc = "validated"
                /\ Steps(r))
            => keyFile' = keyFile /\ transports' = transports]_vars

\* kA opened a session, was deactivated, and its next tools/call on that
\* session was turned away
C8_Witness ==
    \E r \in McpSlots :
        /\ mcp[r].pc = "done" /\ mcp[r].req.apiKey = "kA"
        /\ mcp[r].req.method = "tools/call"
        /\ mcp[r].req.sessionId \in DOMAIN transports
        /\ transports[mcp[r].req.sessionId].apiKey = "kA"
        /\ ~mcp[r].keyData.active
        /\ mcp[r].resp.status = 401 /\ ~mcp[r].resp.dispatched

\* C9: in every reachable state the usage recorded for the current month of
\* every key is at most the limit of the key's tier.
C9_WithinLimit ==
    \A k \in DOMAIN keyFile :
        UsageOf(keyFile[k], month) <= TIER_LIMITS[keyFile[k].tier]

\* C10: every recordUsage call that completes raises the recorded usage of
\* its key by exactly one, so that N completed debits raise it by N.
C10_NoLostUpdate ==
    [][\A r \in McpSlots :
         (mcp[r].pc = "save" /\ mcp'[r].pc = "dispatch")
         => UsageOf(keyFile'[mcp[r].req.apiKey], month)
              = UsageOf(keyFile[mcp[r].req.apiKey], month) + 1]_vars

---------------------------------------------------------------------------
(* Further properties of the token endpoint and the sweep *)

\* p presents the verifier and the redirect URI that fit the code as issued
FitsIssued(p) ==
    /\ WellFormed(p) /\ p.code \in 1..MaxCodes
    /\ issued[p.code].code = p.code
    /\ p.redirect_uri = issued[p.code].redirectUri
    /\ issued[p.code].codeChallenge =
         IF issued[p.code].codeChallengeMethod = "S256"
         THEN Sha256Base64Url(p.code_verifier) ELSE p.code_verifier

\* C13: every /token request that finds the code removes it, whether or not
\* it then succeeds; after a lookup that did not end in success, a request
\* with the same code, the fitting verifier and the fitting redirect URI is
\* answered invalid_grant "Authorization code not found or expired".
C13_ConsumedOnFailure ==
    /\ [][\A r \in TokSlots :
            (Runs(r) /\ FindsCode(tok[r].params, authCodes))
            => tok[r].params.code \notin DOMAIN authCodes']_vars
    /\ [][\A r \in TokSlots :
            LET p == tok[r].params
            IN (Runs(r) /\ FitsIssued(p)
                   /\ lookups[p.code] >= 1 /\ grants[p.code] = 0)
               => /\ InvalidGrant(tok'[r].resp)
                  /\ tok'[r].resp.error_description =
                       "Authorization code not found or expired"]_vars

\* a live code was looked up without success, and the fitting redemption
\* that followed was turned away although the code had not expired
C13_Witness ==
    \E r \in TokSlots, c \in 1..MaxCodes :
        /\ lookups[c] = 1 /\ grants[c] = 0
        /\ tok[r].pc = "done" /\ tok[r].params.code = c
        /\ FitsIssued(tok[r].params)
        /\ ~(now > issued[c].expiresAt)
        /\ InvalidGrant(tok[r].resp)
        /\ tok[r].resp.error_description = "Authorization code not found or expired"

\* the setInterval callback runs in this step
Sweeps == nextSweep' # nextSweep

\* C16: a stored code never outlives its expiresAt by more than one sweep
\* interval: when that much time has passed the sweep is due and runs before
\* the clock moves on; and the sweep removes only codes whose expiresAt has
\* passed.
C16_SweptInTime ==
    /\ [](\A c \in DOMAIN authCodes :
            /\ now <= authCodes[c].expiresAt + SweepIntervalMs
            /\ (now = authCodes[c].expiresAt + SweepIntervalMs) => now >= nextSweep)
    /\ [][Sweeps =>
            \A c \in (DOMAIN authCodes) \ (DOMAIN authCodes') :
                now > authCodes[c].expiresAt]_vars

\* a code that no /token request ever named has been removed by the sweep
\* that ran one interval after its expiresAt
C16_Witness ==
    \E c \in 1..MaxCodes :
        /\ issued[c].code = c /\ lookups[c] = 0
        /\ c \notin DOMAIN authCodes
        /\ now = issued[c].expiresAt + SweepIntervalMs
        /\ nextSweep > now

---------------------------------------------------------------------------
(* Further properties of the /mcp gateway *)

\* C14: every 401 answer of the /mcp handler carries the header
\* WWW-Authenticate: Bearer resource_metadata="<issuer>/.well-known/oauth-protected-resource".
C14_ChallengeOn401 ==
    \A r \in McpSlots :
        (mcp[r].pc = "done" /\ mcp[r].resp.status = 401)
        => mcp[r].resp.wwwAuthenticate =
             "Bearer resource_metadata=\"https://social.ezbizservices.com/.well-known/oauth-protected-resource\""

\* C17: a request is routed to the channel of an existing session only if
\* the key it presents is the apiKey recorded in the session's table entry.
C17_BoundToKey ==
    [][\A r \in McpSlots :
         (mcp[r].pc = "validated" /\ mcp'[r].pc \in {"record", "dispatch"}
             /\ mcp'[r].target # 0)
         => mcp[r].req.apiKey = transports[mcp'[r].target].apiKey]_vars

---------------------------------------------------------------------------
(* Properties of the authorization form and its submission *)

\* handleAuthorizePost answers the request of slot r in this step
Finishes(r) == sub[r].pc = "validated" /\ sub'[r].pc = "done"

\* the key data read for q makes validateApiKey reject the key
KeyRejected(q) ==
    \/ q.form.api_key \in {"", Absent}
    \/ q.keyData = NoKeyData
    \/ ~q.keyData.active
    \/ UsageOf(q.keyData, month) >= TIER_LIMITS[q.keyData.tier]

\* C11: a submit whose key is rejected changes neither the code store nor
\* the client registry nor the key file, in the step that reads the form and
\* in the step that answers.
C11_RejectedSubmitFrame ==
    [][\A r \in SubSlots :
         (\/ Finishes(r) /\ KeyRejected(sub[r])
          \/ sub'[r].pc = "validated" /\ sub'[r] # sub[r] /\ KeyRejected(sub'[r]))
         => /\ authCodes' = authCodes /\ nextCode' = nextCode
            /\ registeredClients' = registeredClients
            /\ keyFile' = keyFile]_vars

\* a submit with the deactivated key was answered while a client was
\* registered, and no code exists
C11_Witness ==
    \E r \in SubSlots :
        /\ sub[r].pc = "done" /\ sub[r].form.api_key = "kB"
        /\ sub[r].resp.status = 200
        /\ "client_1" \in DOMAIN registeredClients
        /\ authCodes = << >> /\ nextCode = 0

\* the hidden fields of the form, as a browser reads them
HiddenFields(html) ==
    [client_id |-> Str(DecodeHtml(html.client_id)),
     redirect_uri |-> Str(DecodeHtml(html.redirect_uri)),
     state |-> Str(DecodeHtml(html.state)),
     code_challenge |-> Str(DecodeHtml(html.code_challenge)),
     code_challenge_method |-> Str(DecodeHtml(html.code_challenge_method)),
     scope |-> Str(DecodeHtml(html.scope)),
     resource |-> Str(DecodeHtml(html.resource))]

\* the seven hidden values of a submitted form
Submitted(form) ==
    [client_id |-> form.client_id, redirect_uri |-> form.redirect_uri,
     state |-> form.state, code_challenge |-> form.code_challenge,
     code_challenge_method |-> form.code_challenge_method,
     scope |-> form.scope, resource |-> form.resource]

\* the form carries the four fields that the handler reads without a default
CarriesFields(form) ==
    Absent \notin {form.client_id, form.redirect_uri, form.state,
                   form.code_challenge}

C15_RedirectPinned ==
    [][\A c \in (DOMAIN authCodes') \ (DOMAIN authCodes) :
         /\ authCodes'[c].clientId \in DOMAIN registeredClients
         /\ \E i \in DOMAIN registeredClients[authCodes'[c].clientId].redirectUris :
               registeredClients[authCodes'[c].clientId].redirectUris[i]
                   = authCodes'[c].redirectUri]_vars

\* the key data read for q makes validateApiKey accept the key
KeyAccepted(q) == ~KeyRejected(q)

\* C19 as claimed: every submit with a valid key is answered 302 to the
\* submitted redirect URI with the new code.
C19_AsClaimed ==
    [][\A r \in SubSlots :
         (Finishes(r) /\ KeyAccepted(sub[r]))
         => /\ sub'[r].resp.status = 302
            /\ sub'[r].resp.query.code = nextCode']_vars

\* C19 (amended): a submit with a valid key stores a record under a new code
\* with the submitted client id, redirect URI, challenge, method (S256 when
\* empty), key and scope (mcp:tools when empty) and expiresAt = now + 10 min;
\* if the redirect URI parses as a URL the answer is 302 to that URL as the
\* parser serialises it, with code = the new code and with state = the
\* submitted state iff that state is non-empty.
C19_RedirectWithCode ==
    [][\A r \in SubSlots :
         (Finishes(r) /\ KeyAccepted(sub[r]))
         => LET f == sub[r].form
                code == nextCode'
                resp == sub'[r].resp
            IN /\ code = nextCode + 1
               /\ DOMAIN authCodes' = (DOMAIN authCodes) \cup {code}
               /\ authCodes'[code].code = code
               /\ authCodes'[code].clientId = f.client_id
               /\ authCodes'[code].redirectUri = f.redirect_uri
               /\ authCodes'[code].codeChallenge = f.code_challenge
               /\ authCodes'[code].codeChallengeMethod =
                    (IF f.code_challenge_method = "" THEN "S256"
                     ELSE f.code_challenge_method)
               /\ authCodes'[code].apiKey = f.api_key
               /\ authCodes'[code].scope =
                    (IF f.scope = "" THEN "mcp:tools" ELSE f.scope)
               /\ authCodes'[code].expiresAt = now + 600000
               /\ f.redirect_uri \in {"https://a/cb", "https://B/cb"}
                  => /\ resp.status = 302
                     /\ resp.location = (IF f.redirect_uri = "https://B/cb"
                                         THEN "https://b/cb" ELSE f.redirect_uri)
                     /\ resp.query.code = code
                     /\ ("state" \in DOMAIN resp.query)
                            <=> (f.state \notin {"", Absent})
                     /\ ("state" \in DOMAIN resp.query)
                            => resp.query.state = f.state]_vars

\* a valid submit with an empty state was redirected without a state
C19_Witness ==
    \E r \in SubSlots :
        /\ sub[r].pc = "done" /\ sub[r].form.api_key = "kA"
        /\ sub[r].form.state = "" /\ sub[r].form.redirect_uri = "https://B/cb"
        /\ sub[r].resp.status = 302
        /\ sub[r].resp.location = "https://b/cb"
        /\ DOMAIN sub[r].resp.query = {"code"}
        /\ sub[r].resp.query.code \in DOMAIN authCodes

---------------------------------------------------------------------------
(* Properties of registration and of the authorization page *)

\* POST /register is answered in this step
Registers == web'.pc = "done" /\ web'.op = "register"

\* C18 as claimed: every body that parses is answered 201.
C18_AsClaimed ==
    [][(Registers /\ web'.req.kind # "unparsable")
       => web'.resp.status = 201]_vars

\* C18 (amended): POST /register with a body that parses to a JSON value
\* other than null is answered 201 and stores the client under the supplied
\* client_id or, without one, under a fresh id; the entry of that id holds
\* the metadata of this request and every other entry is kept; a body that
\* does not parse, or that is null, is answered 400 invalid_request and
\* leaves the registry unchanged.
C18_RegisterOverwrites ==
    [][Registers =>
         LET body == web'.req
             resp == web'.resp
         IN IF body.kind \in {"unparsable", "null"}
            THEN /\ resp.status = 400 /\ resp.error = "invalid_request"
                 /\ registeredClients' = registeredClients
            ELSE /\ resp.status = 201
                 /\ body.client_id # "" => resp.client_id = body.client_id
                 /\ body.client_id = ""
                      => resp.client_id \notin DOMAIN registeredClients
                 /\ DOMAIN registeredClients' =
                      (DOMAIN registeredClients) \cup {resp.client_id}
                 /\ \A c \in (DOMAIN registeredClients) \ {resp.client_id} :
                      registeredClients'[c] = registeredClients[c]
                 /\ registeredClients'[resp.client_id].clientId = resp.client_id
                 /\ registeredClients'[resp.client_id].redirectUris =
                      (IF body.hasUris THEN body.redirect_uris
                       ELSE <<"http://127.0.0.1/callback",
                              "http://localhost/callback">>)
                 /\ registeredClients'[resp.client_id].clientName =
                      (IF body.client_name = "" THEN "MCP Client"
                       ELSE body.client_name)]_vars

\* client_1 was registered with a name next to a client with a generated id
C18_Witness ==
    /\ web.pc = "done" /\ web.op = "register"
    /\ web.req.kind = "object" /\ web.req.client_id = "client_1"
    /\ web.req.client_name = "xyz"
    /\ web.resp.status = 201
    /\ DOMAIN registeredClients = {"client_1", GeneratedId(1)}
    /\ registeredClients["client_1"].clientName = "xyz"

\* C20: GET /authorize without a redirect_uri, or with an empty one, is
\* answered 400 without a form; with a non-empty one it is answered with the
\* form whose hidden fields carry the client id, redirect URI, state,
\* challenge, method, scope and resource of the query; neither changes the
\* code store, the client registry or the key file.
C20_AuthorizeGetChecks ==
    [][(web'.pc = "done" /\ web'.op = "authorize") =>
         LET q == web'.req
             resp == web'.resp
             given(v, d) == IF v \in {"", Absent} THEN d ELSE v
         IN /\ q.redirect_uri \in {"", Absent}
                 => resp.status = 400 /\ "html" \notin DOMAIN resp
            /\ q.redirect_uri \notin {"", Absent}
                 => /\ resp.status = 200
                    /\ HiddenFields(resp.html) =
                         [client_id |-> given(q.client_id, ""),
                          redirect_uri |-> q.redirect_uri,
                          state |-> given(q.state, ""),
                          code_challenge |-> given(q.code_challenge, ""),
                          code_challenge_method |->
                              given(q.code_challenge_method, "S256"),
                          scope |-> given(q.scope, "mcp:tools"),
                          resource |-> given(q.resource, "")]
            /\ authCodes' = authCodes
            /\ registeredClients' = registeredClients
            /\ keyFile' = keyFile]_vars

\* with a client registered, a query with an empty redirect_uri was refused
C20_Witness ==
    /\ web.pc = "done" /\ web.op = "authorize"
    /\ web.req.redirect_uri = ""
    /\ web.resp = [status |-> 400, body |-> "Missing redirect_uri"]
    /\ registeredClients # << >>

---------------------------------------------------------------------------
(* Properties of the key store under interleaving *)

\* C21: once deactivateKey(k) has written the store with k inactive (it
\* returns true in that step), the key file never shows k active again, so
\* that no later validateApiKey(k) can answer valid.
C21_DeactivationDurable ==
    [][\A k \in env.deactivate :
         (k \in DOMAIN keyFile /\ ~keyFile[k].active)
         => ~keyFile'[k].active]_vars

---------------------------------------------------------------------------
(* Properties of failing requests *)

\* C22: a code enters the code store only in the step in which its
\* /authorize/submit request answers with a 302 redirect that carries the
\* code; a submit that ends in an error stores nothing.
C22_NoCodeWithoutRedirect ==
    [][\A c \in (DOMAIN authCodes') \ (DOMAIN authCodes) :
         \E r \in SubSlots :
            /\ Finishes(r)
            /\ sub'[r].resp.status = 302
            /\ sub'[r].resp.query.code = c]_vars

\* C23: a tools/call on an existing session is handed to the channel only
\* after its debit has been recorded: when the handler calls
\* transport.handleRequest, the key's counter in the key file is above the
\* value the handler read when it validated the key.
C23_DebitBeforeDispatch ==
    [][\A r \in McpSlots :
         (/\ mcp[r].pc = "dispatch" /\ mcp'[r].pc = "done"
          /\ mcp[r].target # 0
          /\ mcp[r].req.verb = "POST" /\ mcp[r].req.method = "tools/call")
         => /\ mcp[r].req.apiKey \in DOMAIN keyFile
            /\ UsageOf(keyFile[mcp[r].req.apiKey], month)
                 > UsageOf(mcp[r].keyData, month)]_vars

---------------------------------------------------------------------------
(* Properties of the redemption checks *)

\* the verifier of p does not produce the challenge of authCode
WrongVerifier(p, authCode) ==
    authCode.codeChallenge #
        (IF authCode.codeChallengeMethod = "S256"
         THEN Sha256Base64Url(p.code_verifier) ELSE p.code_verifier)

\* the redirect URI of p is given and is not the one of authCode
WrongRedirect(p, authCode) ==
    p.redirect_uri # "" /\ p.redirect_uri # authCode.redirectUri

\* C24: /token reports the first failing check in the order code exists,
\* code not expired, redirect URI matches, PKCE matches; it succeeds when
\* none fails.
C24_FirstFailingCheck ==
    [][\A r \in TokSlots :
         LET p == tok[r].params
             resp == tok'[r].resp
         IN (Runs(r) /\ WellFormed(p)) =>
              IF p.code \notin DOMAIN authCodes
              THEN /\ InvalidGrant(resp)
                   /\ resp.error_description =
                        "Authorization code not found or expired"
              ELSE LET ac == authCodes[p.code]
                       late == now > ac.expiresAt
                   IN /\ late =>
                           /\ InvalidGrant(resp)
                           /\ resp.error_description = "Authorization code expired"
                      /\ (~late /\ WrongRedirect(p, ac)) =>
                           /\ InvalidGrant(resp)
                           /\ resp.error_description = "redirect_uri mismatch"
                      /\ (~late /\ ~WrongRedirect(p, ac) /\ WrongVerifier(p, ac)) =>
                           /\ InvalidGrant(resp)
                           /\ resp.error_description =
                                "code_verifier does not match the challenge"
                      /\ (~late /\ ~WrongRedirect(p, ac) /\ ~WrongVerifier(p, ac)) =>
                           resp.status = 200]_vars

\* an expired code sent with another redirect URI and a wrong verifier was
\* reported as expired
C24_Witness ==
    \E r \in TokSlots, c \in 1..MaxCodes :
        /\ tok[r].pc = "done" /\ tok[r].params.code = c
        /\ issued[c].code = c /\ now > issued[c].expiresAt
        /\ WrongRedirect(tok[r].params, issued[c])
        /\ WrongVerifier(tok[r].params, issued[c])
        /\ tok[r].resp.error_description = "Authorization code expired"

\* C25: a /token request with another grant_type gets 400
\* unsupported_grant_type whatever its other fields; otherwise one without
\* code or without code_verifier gets 400 invalid_request; neither changes
\* the code store.
C25_MalformedKeepsCodes ==
    [][\A r \in TokSlots :
         LET p == tok[r].params
             resp == tok'[r].resp
         IN /\ (Runs(r) /\ p.grant_type # "authorization_code")
               => /\ resp.status = 400 /\ resp.error = "unsupported_grant_type"
                  /\ authCodes' = authCodes
            /\ (Runs(r) /\ p.grant_type = "authorization_code"
                   /\ (p.code = 0 \/ p.code_verifier = ""))
               => /\ resp.status = 400 /\ resp.error = "invalid_request"
                  /\ authCodes' = authCodes]_vars

\* a request with another grant type and no verifier named a stored code,
\* was answered unsupported_grant_type, and the code is still stored
C25_Witness ==
    \E r \in TokSlots, c \in 1..MaxCodes :
        /\ tok[r].pc = "done" /\ tok[r].params.code = c
        /\ tok[r].params.grant_type = "refresh_token"
        /\ tok[r].params.code_verifier = ""
        /\ tok[r].resp.error = "unsupported_grant_type"
        /\ c \in DOMAIN authCodes /\ lookups[c] = 0

\* C26: on a stored, unexpired code, a /token request that supplies a
\* non-empty redirect_uri other than the one stored at issuance is answered
\* invalid_grant "redirect_uri mismatch"; one that omits redirect_uri, or
\* sends it empty, passes the check and succeeds when its verifier fits.
C26_RedirectCheckOnlyIfGiven ==
    [][\A r \in TokSlots :
         LET p == tok[r].params
             resp == tok'[r].resp
             ac == authCodes[p.code]
         IN (Runs(r) /\ WellFormed(p) /\ p.code \in DOMAIN authCodes
                /\ ~(now > ac.expiresAt))
            => /\ (p.redirect_uri # "" /\ p.redirect_uri # ac.redirectUri)
                  => /\ InvalidGrant(resp)
                     /\ resp.error_description = "redirect_uri mismatch"
               /\ (p.redirect_uri \in {"", ac.redirectUri})
                  => /\ \/ resp.status = 200
                        \/ resp.error_description # "redirect_uri mismatch"
                     /\ ~WrongVerifier(p, ac) => resp.status = 200]_vars

\* a request without redirect_uri redeemed a code issued for a redirect URI
C26_Witness ==
    \E r \in TokSlots, c \in 1..MaxCodes :
        /\ tok[r].pc = "done" /\ tok[r].params.code = c
        /\ tok[r].params.redirect_uri = ""
        /\ issued[c].code = c /\ issued[c].redirectUri = "https://a/cb"
        /\ tok[r].resp.status = 200 /\ grants[c] = 1

\* C27 as claimed: no /token exchange succeeds at a time t >= expiresAt.
C27_AsClaimed ==
    [][\A r \in TokSlots :
         (Runs(r) /\ tok'[r].resp.status = 200)
         => now < issued[tok[r].params.code].expiresAt]_vars

\* C27 (amended): no /token exchange succeeds at a time t > expiresAt (issue
\* time plus 10 minutes); at t = expiresAt itself a stored code is still
\* redeemed by a request whose redirect URI and verifier fit.
C27_RedeemedByExpiry ==
    [][\A r \in TokSlots :
         LET p == tok[r].params
         IN /\ (Runs(r) /\ tok'[r].resp.status = 200)
               => now <= issued[p.code].expiresAt
            /\ (Runs(r) /\ WellFormed(p) /\ p.code \in DOMAIN authCodes
                   /\ now = authCodes[p.code].expiresAt
                   /\ ~WrongRedirect(p, authCodes[p.code])
                   /\ ~WrongVerifier(p, authCodes[p.code]))
               => tok'[r].resp.status = 200]_vars

\* at the instant expiresAt the code, not swept, has been redeemed
C27_Witness ==
    \E r \in TokSlots, c \in 1..MaxCodes :
        /\ tok[r].pc = "done" /\ tok[r].params.code = c
        /\ tok[r].resp.status = 200 /\ grants[c] = 1
        /\ issued[c].code = c /\ now = issued[c].expiresAt
        /\ nextSweep > now

---------------------------------------------------------------------------
(* Properties of the PKCE check *)

\* code c was issued from a form with an empty code_challenge or with none
IssuedWithoutChallenge(c) ==
    issued[c].code = c /\ issued[c].codeChallenge \in {"", Absent}

\* C28: a code issued from an authorization request with no code_challenge
\* (absent or empty) is never exchanged successfully, whatever the verifier
\* and whichever method is stored.
C28_NoChallengeNoToken ==
    /\ [](\A c \in 1..MaxCodes : IssuedWithoutChallenge(c) => grants[c] = 0)
    /\ [][\A r \in TokSlots :
            (Runs(r) /\ tok[r].params.code \in 1..MaxCodes
                /\ IssuedWithoutChallenge(tok[r].params.code))
            => tok'[r].resp.status = 400]_vars

\* a code stored with an empty challenge under method plain was found and
\* the request turned away at the PKCE check
C28_Witness ==
    \E r \in TokSlots, c \in 1..MaxCodes :
        /\ tok[r].pc = "done" /\ tok[r].params.code = c
        /\ issued[c].code = c /\ issued[c].codeChallenge = ""
        /\ issued[c].codeChallengeMethod = "plain"
        /\ lookups[c] = 1
        /\ tok[r].resp.error_description =
             "code_verifier does not match the challenge"

\* C29: the answer to a failed PKCE check is one fixed response: whatever
\* the stored challenge and the presented verifier, status and body are
\* 400 {error: invalid_grant, error_description: "code_verifier does not
\* match the challenge"}, so any two runs that end in a verifier mismatch
\* get identical answers and neither value appears in them.
C29_MismatchAnswerFixed ==
    [][\A r \in TokSlots :
         LET p == tok[r].params
         IN (Runs(r) /\ WellFormed(p) /\ p.code \in DOMAIN authCodes
                /\ ~(now > authCodes[p.code].expiresAt)
                /\ ~WrongRedirect(p, authCodes[p.code])
                /\ WrongVerifier(p, authCodes[p.code]))
            => tok'[r].resp =
                 [status |-> 400, error |-> "invalid_grant",
                  error_description |->
                      "code_verifier does not match the challenge"]]_vars

\* the challenge itself was presented as the verifier of an S256 code and
\* the request was turned away at the PKCE check
C29_Witness ==
    \E r \in TokSlots, c \in 1..MaxCodes :
        /\ tok[r].pc = "done" /\ tok[r].params.code = c
        /\ issued[c].code = c /\ issued[c].codeChallenge = "h(v1)"
        /\ issued[c].codeChallengeMethod = "S256"
        /\ tok[r].params.code_verifier = "h(v1)"
        /\ lookups[c] = 1
        /\ tok[r].resp.status = 400
        /\ tok[r].resp.error_description =
             "code_verifier does not match the challenge"

---------------------------------------------------------------------------
(* Properties of metering at the protocol endpoint *)

\* C30: the /mcp handler records a usage unit only for a request that
\* creates a session or for a tools/call routed to an existing session; a
\* credentialed POST that matches no session and is not an initialize
\* handshake debits nothing.
C30_DebitOnlyForService ==
    [][\A r \in McpSlots :
         (mcp[r].pc = "save" /\ mcp'[r].pc = "dispatch"
             /\ keyFile' = mcp[r].store)
         => \/ mcp[r].target # 0 /\ mcp[r].req.method = "tools/call"
            \/ mcp[r].target = 0 /\ mcp[r].req.method = "initialize"]_vars

(* Request bodies of the /mcp gateway *)

\* the JSON-RPC bodies a client posts: one request object, a batch (an array
\* of request objects) or text that is not JSON
Bodies ==
    [kind : {"object"}, method : {"initialize", "tools/call", "ping"}]
      \cup [kind : {"batch"},
            methods : {<<"tools/call">>, <<"ping", "tools/call">>}]
      \cup {[kind |-> "unparsable"]}

\* body?.method of a batch read as the method of its first element
BodyMethod_FirstElement(body) ==
    IF body.kind = "object" THEN body.method
    ELSE IF body.kind = "batch" THEN body.methods[1]
    ELSE "(throws)"

\* body?.method after cloned.json(): the method member of an object, undefined
\* for an array, and no value at all when json() throws
BodyMethod(body) ==
    IF body.kind = "object" THEN body.method
    ELSE IF body.kind = "batch" THEN "(undefined)"
    ELSE "(throws)"

\* the requests sent to /mcp with the given bodies
BodyRequests(verbs, keys, bodies) ==
    {[verb |-> v, apiKey |-> k, method |-> BodyMethod(b), sessionId |-> sid,
      body |-> b] : v \in verbs, k \in keys, b \in bodies,
                    sid \in 0..MaxSessions}

\* one request at a time, every kind of body
BodyInit ==
    /\ McpStart
    /\ env = [submitKeys |-> {}, submitUris |-> {}, challenges |-> {},
              clientIds |-> {}, states |-> {}, resources |-> {},
              browser |-> FALSE, registerBodies |-> {}, authorizeQueries |-> {},
              methods |-> {}, scopes |-> {}, tokSlots |-> {}, tokenParams |-> {},
              mcpSlots |-> {1}, concurrency |-> 1,
              mcpRequests |-> BodyRequests({"POST"}, {"kA", ""}, Bodies),
              deactivate |-> {"kA"}]

BodySpec == BodyInit /\ [][McpNext]_vars

(* Properties of request bodies *)

\* the body of request q is a JSON object whose method member is tools/call
TopLevelToolCall(q) == q.body.kind = "object" /\ q.body.method = "tools/call"

\* C31: a POST with a key on an existing session is debited exactly when its
\* body is a JSON object whose method is tools/call; a body that is not JSON
\* or is a batch is handed to the channel with the key's usage unchanged,
\* even when an element of the batch is a tools/call.
C31_TopLevelMethodOnly ==
    [][\A r \in McpSlots :
         LET s == mcp[r]
             k == s.req.apiKey
         IN /\ (s.pc = "validated" /\ Steps(r) /\ mcp'[r].pc # "done"
                  /\ mcp'[r].target # 0 /\ k # "")
               => mcp'[r].pc = (IF TopLevelToolCall(s.req) THEN "record"
                                ELSE "dispatch")
            /\ (Answers(r) /\ s.target # 0 /\ k \in DOMAIN keyFile)
               => /\ mcp'[r].resp.dispatched
                  /\ UsageOf(keyFile'[k], month)
                       = UsageOf(s.keyData, month)
                           + (IF TopLevelToolCall(s.req) THEN 1 ELSE 0)]_vars

\* a batch that holds a tools/call was sent with kA on kA's session and was
\* answered by the channel with kA's usage still at its value after the
\* session was opened
C31_Witness ==
    \E r \in McpSlots :
        /\ mcp[r].pc = "done" /\ mcp[r].req.apiKey = "kA"
        /\ mcp[r].req.body.kind = "batch"
        /\ mcp[r].req.body.methods = <<"ping", "tools/call">>
        /\ mcp[r].req.sessionId \in DOMAIN transports
        /\ mcp[r].resp.dispatched /\ mcp[r].resp.status = 200
        /\ UsageOf(keyFile["kA"], month) = (LimitFree - Headroom) + 1

(* Where the /mcp gateway takes the key from *)

\* no header and no query parameter carries a key; an Authorization header is
\* the sequence of its words and the empty sequence when absent
NoSources ==
    [xApiKey |-> "", apikeyHeader |-> "", api_key |-> "", apiKey |-> "",
     apikey |-> "", authorization |-> << >>]

\* req.headers.get("authorization")?.replace(/^Bearer\s+/i, ""): the value
\* without a leading Bearer word, in either case, and the whole value when it
\* does not start with one
BearerToken(authorization) ==
    IF authorization = << >> THEN ""
    ELSE IF Len(authorization) = 1 THEN authorization[1]
    ELSE IF authorization[1] \in {"Bearer", "bearer"} THEN authorization[2]
    ELSE authorization[1] \o " " \o authorization[2]

\* the || chain read from the Authorization header backwards
ExtractApiKey_BearerFirst(src) ==
    IF BearerToken(src.authorization) # "" THEN BearerToken(src.authorization)
    ELSE IF src.apikey # "" THEN src.apikey
    ELSE IF src.apiKey # "" THEN src.apiKey
    ELSE IF src.api_key # "" THEN src.api_key
    ELSE IF src.apikeyHeader # "" THEN src.apikeyHeader
    ELSE src.xApiKey

\* const apiKey = headers x-api-key || apikey || query api_key || apiKey ||
\* apikey || bearerToken; every falsy outcome is the empty key
ExtractApiKey(src) ==
    IF src.xApiKey # "" THEN src.xApiKey
    ELSE IF src.apikeyHeader # "" THEN src.apikeyHeader
    ELSE IF src.api_key # "" THEN src.api_key
    ELSE IF src.apiKey # "" THEN src.apiKey
    ELSE IF src.apikey # "" THEN src.apikey
    ELSE BearerToken(src.authorization)

\* requests that carry kA in one place, and requests that carry kA and the
\* unknown key kX in two neighbouring places
KeySources ==
    {NoSources}
      \cup {[NoSources EXCEPT !.xApiKey = "kA"],
            [NoSources EXCEPT !.apikeyHeader = "kA"],
            [NoSources EXCEPT !.api_key = "kA"],
            [NoSources EXCEPT !.apiKey = "kA"],
            [NoSources EXCEPT !.apikey = "kA"]}
      \cup {[NoSources EXCEPT !.authorization = a] :
                a \in {<<"Bearer", "kA">>, <<"bearer", "kA">>, <<"kA">>,
                       <<"Basic", "kA">>}}
      \cup UNION {{[NoSources EXCEPT !.xApiKey = k1, !.apikeyHeader = k2],
                   [NoSources EXCEPT !.apikeyHeader = k1, !.api_key = k2],
                   [NoSources EXCEPT !.api_key = k1, !.apiKey = k2],
                   [NoSources EXCEPT !.apiKey = k1, !.apikey = k2],
                   [NoSources EXCEPT !.apikey = k1,
                                     !.authorization = <<"Bearer", k2>>]} :
                      <<k1, k2>> \in {<<"kA", "kX">>, <<"kX", "kA">>}}

\* the requests sent to /mcp with the given key sources
SourceRequests(verbs, sources, methods) ==
    {[verb |-> v, apiKey |-> ExtractApiKey(src), method |-> m,
      sessionId |-> sid, sources |-> src] :
        v \in verbs, src \in sources, m \in methods, sid \in 0..MaxSessions}

\* one request at a time, the key in every place
CredInit ==
    /\ McpStart
    /\ env = [submitKeys |-> {}, submitUris |-> {}, challenges |-> {},
              clientIds |-> {}, states |-> {}, resources |-> {},
              browser |-> FALSE, registerBodies |-> {}, authorizeQueries |-> {},
              methods |-> {}, scopes |-> {}, tokSlots |-> {}, tokenParams |-> {},
              mcpSlots |-> {1}, concurrency |-> 1,
              mcpRequests |-> SourceRequests({"POST"}, KeySources,
                                             {"initialize", "tools/call"}),
              deactivate |-> {"kA"}]

CredSpec == CredInit /\ [][McpNext]_vars

(* Properties of the key sources *)

\* the values of the six places in the order of the claim
Places(src) ==
    <<src.xApiKey, src.apikeyHeader, src.api_key, src.apiKey, src.apikey,
      BearerToken(src.authorization)>>

\* the first value that is not empty, and the empty key when all are
FirstGiven(src) ==
    LET v == Places(src)
    IN IF \A i \in 1..6 : v[i] = "" THEN ""
       ELSE v[CHOOSE i \in 1..6 : v[i] # "" /\ \A j \in 1..(i - 1) : v[j] = ""]

\* C32: the key of a request is the first non-empty value among the X-API-Key
\* header, the apikey header, the query parameters api_key, apiKey and
\* apikey, and the bearer token of Authorization, in this order; that value
\* is the one validated on arrival and the only one whose usage a debit of
\* the request changes.
C32_FirstGivenSource ==
    /\ [][\A r \in McpSlots :
            Arrives(r)
            => LET k == FirstGiven(mcp'[r].req.sources)
               IN /\ mcp'[r].req.apiKey = k
                  /\ k # "" => mcp'[r].keyData = KeyDataOf(keyFile, k)]_vars
    /\ [][\A r \in McpSlots :
            (mcp[r].pc = "save" /\ Steps(r))
            => LET k == FirstGiven(mcp[r].req.sources)
               IN /\ k \in DOMAIN keyFile
                  /\ UsageOf(keyFile'[k], month) = UsageOf(keyFile[k], month) + 1
                  /\ \A o \in DOMAIN keyFile' \ {k} :
                        o \in DOMAIN keyFile /\ keyFile'[o] = keyFile[o]]_vars
    /\ [](\A r \in McpSlots :
            (mcp[r].pc = "done" /\ FirstGiven(mcp[r].req.sources) = "kX")
            => mcp[r].resp.status = 401)

\* kA in the apikey header came before kX in the api_key query parameter:
\* the request opened a session for kA and kA was debited
C32_Witness ==
    \E r \in McpSlots :
        /\ mcp[r].pc = "done"
        /\ mcp[r].req.sources.apikeyHeader = "kA"
        /\ mcp[r].req.sources.api_key = "kX"
        /\ mcp[r].req.method = "initialize"
        /\ mcp[r].resp.status = 200 /\ mcp[r].resp.dispatched
        /\ \E sid \in DOMAIN transports : transports[sid].apiKey = "kA"
        /\ UsageOf(keyFile["kA"], month) = (LimitFree - Headroom) + 1

(* Properties of session creation *)

\* the request of slot s passed authentication: by the discovery bypass or by
\* validateApiKey on the key data read for it
PassedAuth(s) == AuthResult(s.req, s.keyData, month).valid

\* the request of slot s names a session that is in the table
OnSession(s) == s.req.sessionId # 0 /\ s.req.sessionId \in DOMAIN transports

\* C33: a session id enters the table only in the step in which a channel
\* made for a POST that passed authentication answers that POST; a request of
\* another verb that passed authentication and names no session of the table
\* is answered 400 with code -32000 and leaves the table and the key file as
\* they were.
C33_OnlyPostCreates ==
    /\ [][\A sid \in (DOMAIN transports') \ (DOMAIN transports) :
            \E r \in McpSlots :
                /\ Answers(r) /\ mcp[r].target = 0
                /\ mcp[r].req.verb = "POST" /\ PassedAuth(mcp[r])
                /\ mcp'[r].resp.sessionId = sid]_vars
    /\ [][\A r \in McpSlots :
            (InFlight(r) /\ Steps(r) /\ mcp[r].req.verb # "POST"
                /\ PassedAuth(mcp[r]) /\ ~OnSession(mcp[r]))
            => /\ mcp'[r].pc = "done"
               /\ mcp'[r].resp.status = 400 /\ mcp'[r].resp.code = -32000
               /\ ~mcp'[r].resp.dispatched
               /\ transports' = transports /\ keyFile' = keyFile]_vars

\* a GET with the valid key kA that names no session was answered 400 while
\* the table was empty and kA's usage was still at its first value
C33_Witness ==
    \E r \in McpSlots :
        /\ mcp[r].pc = "done" /\ mcp[r].req.verb = "GET"
        /\ mcp[r].req.apiKey = "kA" /\ mcp[r].req.method = "initialize"
        /\ mcp[r].resp.status = 400 /\ mcp[r].resp.code = -32000
        /\ transports = << >>
        /\ UsageOf(keyFile["kA"], month) = LimitFree - Headroom

(* Shutdown: the SIGINT handler *)

\* the loop body with the delete inside the try block
AfterClose_InsideTry(sessions, sid, threw) ==
    IF threw THEN sessions ELSE CloseSession(sessions, sid)

\* try { await transports[sid].transport.close(); } catch {}
\* delete transports[sid]: the entry goes whether close() returned or threw
AfterClose(sessions, sid, threw) == CloseSession(sessions, sid)

(* SIGINT arrives: for (const sid in transports) fixes the ids it will visit *)
SigintBegin ==
    /\ shutdown.pc = "running"
    /\ shutdown' = [pc |-> "closing", open |-> DOMAIN transports,
                    todo |-> DOMAIN transports, threw |-> FALSE]
    /\ UNCHANGED <<month, keyFile, env, oauthVars, mcp, transports, nextSid,
                   adm, signup, nextKey>>

(* one turn of the loop: close() of the next session returns or throws, then
   its entry is deleted; the ids are visited in the order they were added *)
SigintClose ==
    /\ shutdown.pc = "closing"
    /\ shutdown.todo # {}
    /\ LET sid == CHOOSE t \in shutdown.todo : \A o \in shutdown.todo : t <= o
       IN \E threw \in BOOLEAN :
            /\ transports' = AfterClose(transports, sid, threw)
            /\ shutdown' = [shutdown EXCEPT !.todo = @ \ {sid},
                                            !.threw = @ \/ threw]
    /\ UNCHANGED <<month, keyFile, env, oauthVars, mcp, nextSid, adm, signup,
                   nextKey>>

(* process.exit(0) after the loop *)
SigintExit ==
    /\ shutdown.pc = "closing"
    /\ shutdown.todo = {}
    /\ shutdown' = [shutdown EXCEPT !.pc = "exited"]
    /\ UNCHANGED <<month, keyFile, env, oauthVars, mcp, transports, nextSid,
                   adm, signup, nextKey>>

\* one request at a time; sessions are opened and closed with and without a
\* key
ShutInit ==
    /\ McpStart
    /\ env = [submitKeys |-> {}, submitUris |-> {}, challenges |-> {},
              clientIds |-> {}, states |-> {}, resources |-> {},
              browser |-> FALSE, registerBodies |-> {}, authorizeQueries |-> {},
              methods |-> {}, scopes |-> {}, tokSlots |-> {}, tokenParams |-> {},
              mcpSlots |-> {1}, concurrency |-> 1,
              mcpRequests |-> McpRequests({"POST", "DELETE"}, {"kA", ""},
                                          {"initialize", "tools/call"}),
              deactivate |-> {"kA"}]

\* requests are served until SIGINT arrives; close() of the channel settles
\* without waiting for input or output, so no request handler runs between
\* two turns of the loop
ShutNext ==
    \/ shutdown.pc = "running" /\ McpNext
    \/ SigintBegin
    \/ SigintClose
    \/ SigintExit

ShutSpec == ShutInit /\ [][ShutNext]_vars

(* Properties of session removal *)

C35_OwnerCanClose ==
    [][\A r \in McpSlots :
         LET s == mcp[r]
         IN (s.pc = "validated" /\ Steps(r) /\ s.req.verb = "DELETE"
                /\ OnSession(s)
                /\ s.req.apiKey = transports[s.req.sessionId].apiKey)
            => /\ mcp'[r].pc = "dispatch"
               /\ mcp'[r].target = s.req.sessionId]_vars

(* Key management: /api/keys/signup and /api/keys/provision *)

\* a key of createApiKey: sk_soc_ and the hex of 24 random bytes; the n-th
\* draw differs from every earlier one
NewKey(n) == "sk_soc_" \o ToString(n)

\* the entry createApiKey stores; index is the entry's place in the keys
\* object, which Object.entries follows
NewKeyData(name, tier, email, index) ==
    [name |-> name, email |-> email, tier |-> tier, active |-> TRUE,
     usage |-> << >>, index |-> index]

\* the entries getKeyByEmail and upgradeKey stop at: data.email === email &&
\* data.active
MatchesEmail(store, email) ==
    {k \in DOMAIN store : store[k].email = email /\ store[k].active}

\* getKeyByEmail on the loaded store: the first entry that matches, or null
GetKeyByEmail(store, email) ==
    LET m == MatchesEmail(store, email)
    IN IF m = {} THEN ""
       ELSE CHOOSE k \in m : \A o \in m : store[k].index <= store[o].index

\* createApiKey between loadKeys and saveKeys
CreateApiKey(store, key, name, tier, email) ==
    (key :> NewKeyData(name, tier, email, Cardinality(DOMAIN store) + 1))
        @@ store

\* upgradeKey between loadKeys and saveKeys
UpgradeKey(store, email, newTier) ==
    [store EXCEPT ![GetKeyByEmail(store, email)].tier = newTier]

\* the bodies posted to the two endpoints, with the outcome of the admin
\* secret comparison
KeyRequests ==
    [path : {"signup"}, email : {"a@x", "b@x", ""}, name : {"Ann", ""},
     tier : {""}, admin : {FALSE}]
      \cup [path : {"provision"}, email : {"a@x", ""}, name : {"Ann"},
            tier : {"pro", ""}, admin : BOOLEAN]

\* key requests that have not been answered
KeysInFlight ==
    Cardinality({r \in KeySlots : signup[r].pc \notin {"idle", "done"}})

(* a request reaches /api/keys/signup or /api/keys/provision: the secret and
   the body are checked and getKeyByEmail's loadKeys reads the key file *)
KeysRecv(r) ==
    /\ FreeSlot(signup, KeySlots, r)
    /\ nextKey + KeysInFlight < MaxKeys
    /\ \E q \in KeyRequests :
         LET answer(resp) == [pc |-> "done", req |-> q, resp |-> resp]
             existing == GetKeyByEmail(keyFile, q.email)
         IN signup' = [signup EXCEPT ![r] =
              IF q.path = "provision" /\ ~q.admin THEN
                  answer([status |-> 401, key |-> ""])
              ELSE IF q.path = "signup" /\ (q.email = "" \/ q.name = "") THEN
                  answer([status |-> 400, key |-> ""])
              ELSE IF q.path = "provision" /\ (q.email = "" \/ q.tier = "") THEN
                  answer([status |-> 400, key |-> ""])
              ELSE IF existing = "" THEN
                  [pc |-> "create", req |-> q]
              ELSE IF q.path = "signup" THEN
                  answer([status |-> 200, key |-> existing])
              ELSE [pc |-> "upgrade", req |-> q, existing |-> existing]]
    /\ UNCHANGED <<month, keyFile, env, oauthVars, mcp, transports, nextSid,
                   adm, nextKey, shutdown>>

(* createApiKey: loadKeys has read the file, the key is drawn and the entry
   is added in memory *)
KeysCreateLoad(r) ==
    /\ signup[r].pc = "create"
    /\ LET q == signup[r].req
           key == NewKey(nextKey + 1)
           tier == IF q.path = "signup" THEN "free" ELSE q.tier
       IN signup' = [signup EXCEPT ![r] =
            [pc |-> "save", req |-> q, key |-> key,
             store |-> CreateApiKey(keyFile, key, q.name, tier, q.email)]]
    /\ nextKey' = nextKey + 1
    /\ UNCHANGED <<month, keyFile, env, oauthVars, mcp, transports, nextSid,
                   adm, shutdown>>

(* createApiKey: saveKeys writes the whole store back and the key is
   returned to the caller *)
KeysCreateSave(r) ==
    /\ signup[r].pc = "save"
    /\ keyFile' = signup[r].store
    /\ signup' = [signup EXCEPT ![r] =
                    [pc |-> "done", req |-> @.req,
                     resp |-> [status |-> 200, key |-> @.key]]]
    /\ UNCHANGED <<month, env, oauthVars, mcp, transports, nextSid, adm,
                   nextKey, shutdown>>

(* upgradeKey: loadKeys has read the file; without a matching entry nothing
   is saved and the answer still names the key found before *)
KeysUpgradeLoad(r) ==
    /\ signup[r].pc = "upgrade"
    /\ LET s == signup[r]
       IN signup' = [signup EXCEPT ![r] =
            IF GetKeyByEmail(keyFile, s.req.email) = ""
            THEN [pc |-> "done", req |-> s.req,
                  resp |-> [status |-> 200, key |-> s.existing]]
            ELSE [pc |-> "usave", req |-> s.req, existing |-> s.existing,
                  store |-> UpgradeKey(keyFile, s.req.email, s.req.tier)]]
    /\ UNCHANGED <<month, keyFile, env, oauthVars, mcp, transports, nextSid,
                   adm, nextKey, shutdown>>

(* upgradeKey: saveKeys writes the whole store back *)
KeysUpgradeSave(r) ==
    /\ signup[r].pc = "usave"
    /\ keyFile' = signup[r].store
    /\ signup' = [signup EXCEPT ![r] =
                    [pc |-> "done", req |-> @.req,
                     resp |-> [status |-> 200, key |-> @.existing]]]
    /\ UNCHANGED <<month, env, oauthVars, mcp, transports, nextSid, adm,
                   nextKey, shutdown>>

\* the key file does not exist yet: loadKeys yields an empty store
KeysInit ==
    /\ now = 0 /\ month = 0 /\ nextSweep = SweepIntervalMs
    /\ keyFile = << >>
    /\ authCodes = << >>
    /\ nextCode = 0
    /\ sub = [r \in SubSlots |-> Idle]
    /\ tok = [r \in TokSlots |-> Idle]
    /\ issued = [c \in 1..MaxCodes |-> NotIssued]
    /\ lookups = [c \in 1..MaxCodes |-> 0]
    /\ grants = [c \in 1..MaxCodes |-> 0]
    /\ mcp = [r \in McpSlots |-> Idle]
    /\ transports = << >>
    /\ nextSid = 0
    /\ adm = Idle
    /\ registeredClients = << >>
    /\ nextClient = 0
    /\ web = Idle
    /\ signup = [r \in KeySlots |-> Idle]
    /\ nextKey = 0
    /\ shutdown = [pc |-> "running"]
    /\ env = [submitKeys |-> {}, submitUris |-> {}, challenges |-> {},
              clientIds |-> {}, states |-> {}, resources |-> {},
              browser |-> FALSE, registerBodies |-> {}, authorizeQueries |-> {},
              methods |-> {}, scopes |-> {}, tokSlots |-> {}, tokenParams |-> {},
              mcpSlots |-> {}, concurrency |-> 0, mcpRequests |-> {},
              deactivate |-> {}]

KeysNext ==
    \/ \E r \in KeySlots : KeysRecv(r)
    \/ \E r \in KeySlots : KeysCreateLoad(r)
    \/ \E r \in KeySlots : KeysCreateSave(r)
    \/ \E r \in KeySlots : KeysUpgradeLoad(r)
    \/ \E r \in KeySlots : KeysUpgradeSave(r)

KeysSpec == KeysInit /\ [][KeysNext]_vars

(* Properties of key management *)

\* C36: in every reachable state no email address has more than one active
\* key in the key file, also when two signup or provision requests for the
\* same address are in flight together.
C36_OneActiveKeyPerEmail ==
    \A e \in {q.email : q \in KeyRequests} :
        Cardinality(MatchesEmail(keyFile, e)) <= 1

(* Properties of the new-session path *)

\* C37: when the channel's construction or connection or the creating debit
\* throws on the new-session path, the request is answered 500 with the
\* envelope of code -32603 and message "Internal server error", the same for
\* every exception, and the session table stays as it was.
C37_FixedInternalError ==
    [][\A r \in McpSlots :
         /\ (mcp[r].pc # "caught" /\ mcp'[r].pc = "caught")
            => transports' = transports
         /\ (mcp[r].pc = "caught" /\ Steps(r))
            => /\ mcp'[r].pc = "done"
               /\ mcp'[r].resp = InternalError
               /\ transports' = transports]_vars

(* The calendar month changes *)

(* new Date().toISOString().slice(0, 7) yields the next month from now on *)
NextMonth ==
    /\ month < MaxMonth
    /\ month' = month + 1
    /\ UNCHANGED <<keyFile, env, oauthVars, mcpVars>>

\* one request at a time, all with key kA
RollInit ==
    /\ McpStart
    /\ env = [submitKeys |-> {}, submitUris |-> {}, challenges |-> {},
              clientIds |-> {}, states |-> {}, resources |-> {},
              browser |-> FALSE, registerBodies |-> {}, authorizeQueries |-> {},
              methods |-> {}, scopes |-> {}, tokSlots |-> {}, tokenParams |-> {},
              mcpSlots |-> {1}, concurrency |-> 1,
              mcpRequests |-> McpRequests({"POST"}, {"kA"},
                                          {"initialize", "tools/call"}),
              deactivate |-> {"kA"}]

RollNext ==
    \/ McpNext
    \/ NextMonth

RollSpec == RollInit /\ [][RollNext]_vars

(* Properties of the monthly allowance *)

\* the handler of slot r acts on validateApiKey's answer in this step
Routes(r) == mcp[r].pc = "validated" /\ Steps(r)

\* the key data d shows the allowance of an earlier month used up
SpentBefore(d, m) ==
    \E o \in DOMAIN d.usage : o < m /\ d.usage[o] >= LimitOf(d)

\* C38: usage is counted per calendar month. A request with an active key is
\* rejected as rate-limited exactly when the counter of the current month has
\* reached the tier's limit, so a key whose allowance of month M is used up
\* is accepted again in month M+1; recordUsage raises the counter of the
\* month in which it runs by one and leaves the counters of all other months
\* as they are.
C38_PerMonthAllowance ==
    /\ [][\A r \in McpSlots :
            LET d == mcp[r].keyData
            IN (Routes(r) /\ Credentialed(mcp[r]) /\ d # NoKeyData /\ d.active)
               => /\ (UsageOf(d, month) >= LimitOf(d))
                     => /\ mcp'[r].pc = "done"
                        /\ mcp'[r].resp.status = 401
                        /\ mcp'[r].resp.message = "Rate limit exceeded."
                  /\ (UsageOf(d, month) < LimitOf(d))
                     => mcp'[r].pc \in {"record", "dispatch"}]_vars
    /\ [][\A r \in McpSlots :
            (mcp[r].pc = "record" /\ mcp'[r].pc = "save")
            => LET k == mcp[r].req.apiKey
               IN \A m \in 0..MaxMonth :
                    UsageOf(mcp'[r].store[k], m)
                      = UsageOf(keyFile[k], m) + (IF m = month THEN 1 ELSE 0)]_vars
    /\ [][\A r \in McpSlots :
            (mcp[r].pc = "save" /\ Steps(r)) => keyFile' = mcp[r].store]_vars

\* kA used up its allowance of month 0 and, in month 1, had a tools/call
\* accepted and debited to month 1 alone
C38_Witness ==
    \E r \in McpSlots :
        /\ month = 1
        /\ mcp[r].pc = "done" /\ mcp[r].req.apiKey = "kA"
        /\ mcp[r].req.method = "tools/call"
        /\ SpentBefore(mcp[r].keyData, month)
        /\ mcp[r].resp.dispatched /\ mcp[r].resp.status = 200
        /\ UsageOf(keyFile["kA"], 0) = LimitFree
        /\ UsageOf(keyFile["kA"], 1) = 1

(* The head of the fetch handler: health check and CORS preflight *)

\* corsHeaders of the fetch handler
CorsHeaders ==
    [allowOrigin |-> "*",
     allowMethods |-> "GET, POST, DELETE, OPTIONS",
     allowHeaders |-> "Content-Type, Authorization, X-API-Key, X-Admin-Secret, Mcp-Session-Id, Accept",
     exposeHeaders |-> "Mcp-Session-Id"]

\* the headers of Response.json without an init argument
JsonHeaders == [contentType |-> "application/json"]

\* the answer of the health check
HealthResponse(sessions) ==
    [status |-> 200, headers |-> JsonHeaders,
     body |-> [status |-> "ok",
               activeSessions |-> Cardinality(DOMAIN sessions)]]

\* new Response(null, { status: 204, headers: corsHeaders })
PreflightResponse ==
    [status |-> 204, headers |-> CorsHeaders, body |-> [status |-> "(none)"]]

\* the handler with the OPTIONS test ahead of the health check
OptionsResponse_OptionsFirst(path, sessions) == PreflightResponse

\* the answer to an OPTIONS request: the handler tests the path for /health
\* first and the verb for OPTIONS second, before any route
OptionsResponse(path, sessions) ==
    IF path = "/health" THEN HealthResponse(sessions) ELSE PreflightResponse

\* the paths OPTIONS requests are sent to
Paths ==
    {"/health", "/mcp", "/", "/token", "/authorize", "/register",
     "/api/keys/signup", "/nowhere"}

(* an OPTIONS request is answered *)
Options ==
    /\ \E path \in Paths :
         web' = [pc |-> "done", op |-> "options", req |-> [path |-> path],
                 resp |-> OptionsResponse(path, transports)]
    /\ UNCHANGED <<month, keyFile, env, mcpVars, now, nextSweep, authCodes,
                   nextCode, sub, tok, issued, lookups, grants,
                   registeredClients, nextClient>>

\* a client registers, forms are submitted and /mcp is used with key kA, one
\* request at a time, while OPTIONS requests arrive
EdgeInit ==
    /\ McpStart
    /\ env = [submitKeys |-> {"kA"}, submitUris |-> {"https://a/cb"},
              clientIds |-> {"client_1"}, states |-> {""},
              challenges |-> {"h(v1)"}, methods |-> {"plain"},
              scopes |-> {""}, resources |-> {""},
              browser |-> TRUE,
              registerBodies |-> {[kind |-> "object", client_id |-> "client_1",
                                   hasUris |-> TRUE,
                                   redirect_uris |-> <<"https://a/cb">>,
                                   client_name |-> ""]},
              authorizeQueries |-> {},
              tokSlots |-> {}, tokenParams |-> {},
              mcpSlots |-> {1}, concurrency |-> 1,
              mcpRequests |-> McpRequests({"POST"}, {"kA"},
                                          {"initialize", "tools/call"}),
              deactivate |-> {"kA"}]

EdgeNext ==
    \/ AuthzNext
    \/ McpNext
    \/ Options

EdgeSpec == EdgeInit /\ [][EdgeNext]_vars

(* Properties of the preflight answer *)

\* an OPTIONS request is answered in this step
Preflight == web' # web /\ web'.pc = "done" /\ web'.op = "options"

\* an OPTIONS request leaves the key file, the requests in flight, the
\* session table, the code store and the client registry as they were
OptionsFrame ==
    /\ keyFile' = keyFile /\ mcp' = mcp /\ transports' = transports
    /\ authCodes' = authCodes /\ sub' = sub /\ tok' = tok
    /\ registeredClients' = registeredClients

\* C39 as stated: an OPTIONS request to any path is answered 204 with the
\* CORS headers and changes no state.
C39_AsClaimed ==
    [][Preflight
         => /\ web'.resp.status = 204
            /\ web'.resp.headers = CorsHeaders
            /\ OptionsFrame]_vars

\* C39: an OPTIONS request to any path other than /health is answered 204
\* with the CORS headers; an OPTIONS request to /health is answered by the
\* health check, 200 without the CORS headers; neither changes the key file,
\* the session table, the code store or the client registry.
C39_PreflightExceptHealth ==
    [][Preflight
         => /\ (web'.req.path # "/health")
               => /\ web'.resp.status = 204
                  /\ web'.resp.headers = CorsHeaders
            /\ (web'.req.path = "/health")
               => /\ web'.resp.status = 200
                  /\ web'.resp.headers = JsonHeaders
                  /\ web'.resp.body.activeSessions
                       = Cardinality(DOMAIN transports)
            /\ OptionsFrame]_vars

\* OPTIONS /mcp was answered 204 with the CORS headers while a session was
\* open, a code was in the store, a client was registered and kA had been
\* debited
C39_Witness ==
    /\ web.pc = "done" /\ web.op = "options" /\ web.req.path = "/mcp"
    /\ web.resp.status = 204 /\ web.resp.headers = CorsHeaders
    /\ transports # << >> /\ authCodes # << >>
    /\ registeredClients # << >>
    /\ UsageOf(keyFile["kA"], month) > LimitFree - Headroom

====
